---- MODULE Spec2Model ----
(***************************************************************************)
(* Lab report processor: the formatter (app/utils.py), the field extractor *)
(* (app/lab_test_parser.py), the layout analysis of the OCR boxes          *)
(* (app/text_extractor.py), the detection of table regions                 *)
(* (app/image_processor.py) and the orchestration of a request             *)
(* (app/main.py).                                                          *)
(*                                                                         *)
(* A Python str is a sequence of tokens.  A digit, a punctuation mark or a *)
(* white-space character is one token; a maximal run of letters (a word)   *)
(* is one token as well, so "14.2 mg" is <<"1","4",".","2"," ","mg">>.     *)
(* The vocabulary holds no word that properly contains a keyword of the    *)
(* parser, so a regular expression over characters is a regular expression *)
(* over tokens.                                                            *)
(***************************************************************************)
EXTENDS Integers, Sequences, FiniteSets, TLC

VARIABLES
    rng,        \* one call of parse_reference_range (SpecRange)
    fmt,        \* one call of format_lab_test (SpecFormat)
    prs,        \* one call of LabTestParser.parse_text (SpecParse)
    grp,        \* one call of TextExtractor._group_by_lines (SpecLines)
    dcl,        \* one call of TextExtractor._detect_columns (SpecColumns)
    tbl,        \* one call of TextExtractor.extract_table_data (SpecTable)
    det,        \* one call of ImageProcessor.detect_table_regions (SpecRegions)
    two,        \* two invocations of process_lab_report side by side (SpecTwo)
    ptd,        \* one call of LabTestParser.parse_table_data (SpecRows)
    pc,         \* position of the request in get_lab_tests / process_lab_report
    req,        \* the uploaded file: content type, decodability, blank or not
    lab_tests,      \* process_lab_report: records of the full-image text
    all_lab_tests,  \* process_lab_report: records of the regions / structured text
    regions,    \* process_lab_report: number of table_regions still to process
    calls,      \* the collaborator calls made so far, in order
    exc,        \* the exception in flight, NoException when there is none
    result,     \* what process_lab_report returned
    resp        \* the HTTP response, once written

vars == <<rng, fmt, prs, grp, dcl, tbl, det, two, ptd, pc, req, lab_tests, all_lab_tests, regions, calls, exc, result, resp>>

-----------------------------------------------------------------------------
(* Tokens and character classes *)

Digit == {"0", "1", "2", "3", "4", "5", "6", "7", "8", "9"}

Space == {" ", "\t", "\n"}

\* words of the vocabulary (runs of letters)
UpperWord == {"Hemoglobin", "WBC", "Glucose", "TSH", "HDL", "Test", "Name", "Result",
              "Reference", "Range", "Value", "N", "A"}

LowerWord == {"hemoglobin", "wbc", "glucose", "tsh", "hdl", "test", "name", "result",
              "reference", "range", "value", "n", "a", "inf", "nan", "mg"}

Word == UpperWord \cup LowerWord

Punct == {":", "(", ")", ".", "-", "+", "/", "<", ">", "=", "|", ",", "%"}

Token == Digit \cup Space \cup Word \cup Punct

\* str.lower(), token by token
lower_tok(t) ==
    CASE t = "Hemoglobin" -> "hemoglobin"
      [] t = "WBC" -> "wbc"
      [] t = "Glucose" -> "glucose"
      [] t = "TSH" -> "tsh"
      [] t = "HDL" -> "hdl"
      [] t = "Test" -> "test"
      [] t = "Name" -> "name"
      [] t = "Result" -> "result"
      [] t = "Reference" -> "reference"
      [] t = "Range" -> "range"
      [] t = "Value" -> "value"
      [] t = "N" -> "n"
      [] t = "A" -> "a"
      [] OTHER -> t

lower(s) == [i \in 1..Len(s) |-> lower_tok(s[i])]

-----------------------------------------------------------------------------
(* str methods *)

RECURSIVE lstrip(_)
lstrip(s) == IF s # <<>> /\ Head(s) \in Space THEN lstrip(Tail(s)) ELSE s

RECURSIVE rstrip(_)
rstrip(s) == IF s # <<>> /\ s[Len(s)] \in Space THEN rstrip(SubSeq(s, 1, Len(s) - 1)) ELSE s

strip(s) == rstrip(lstrip(s))

\* t in s
contains(s, t) == \E i \in 1..Len(s) : s[i] = t

\* s.count(t)
count(s, t) == Cardinality({i \in 1..Len(s) : s[i] = t})

\* s.find(t), 1-based; 0 when absent
find(s, t) == IF contains(s, t) THEN CHOOSE i \in 1..Len(s) : s[i] = t /\ \A j \in 1..(i - 1) : s[j] # t
              ELSE 0

\* s.split(d): always at least one part
RECURSIVE split(_, _)
split(s, d) ==
    IF ~contains(s, d) THEN <<s>>
    ELSE LET i == find(s, d)
         IN <<SubSeq(s, 1, i - 1)>> \o split(SubSeq(s, i + 1, Len(s)), d)

\* " ".join(s.split()): white-space runs collapsed to one blank, ends stripped
RECURSIVE collapse_inner(_)
collapse_inner(s) ==
    IF s = <<>> THEN <<>>
    ELSE IF Head(s) \in Space
         THEN LET r == lstrip(s) IN IF r = <<>> THEN <<>> ELSE <<" ">> \o collapse_inner(r)
         ELSE <<Head(s)>> \o collapse_inner(Tail(s))

collapse(s) == collapse_inner(lstrip(s))

\* sep.join(parts)
RECURSIVE join(_, _)
join(sep, parts) ==
    IF parts = <<>> THEN <<>>
    ELSE IF Len(parts) = 1 THEN parts[1]
    ELSE parts[1] \o sep \o join(sep, Tail(parts))

-----------------------------------------------------------------------------
(* Python floats: finite decimals m / 10^f (normalised), the infinities, NaN *)

RECURSIVE Pow10(_)
Pow10(n) == IF n = 0 THEN 1 ELSE 10 * Pow10(n - 1)

RECURSIVE Fin(_, _)
Fin(m, f) == IF f > 0 /\ m % 10 = 0 THEN Fin(m \div 10, f - 1)
             ELSE [k |-> "fin", m |-> m, f |-> f]

PosInf == [k |-> "inf", m |-> 1, f |-> 0]
NegInf == [k |-> "inf", m |-> -1, f |-> 0]
NaN == [k |-> "nan", m |-> 0, f |-> 0]
Zero == Fin(0, 0)

\* a < b on floats (every comparison with NaN is false)
Lt(a, b) ==
    CASE a.k = "nan" \/ b.k = "nan" -> FALSE
      [] a.k = "inf" /\ b.k = "inf" -> a.m < b.m
      [] a.k = "inf" /\ b.k = "fin" -> a.m < 0
      [] a.k = "fin" /\ b.k = "inf" -> b.m > 0
      [] OTHER -> a.m * Pow10(b.f) < b.m * Pow10(a.f)

Gt(a, b) == Lt(b, a)

\* a != b on floats (NaN differs from everything, itself included)
Ne(a, b) == a.k = "nan" \/ b.k = "nan" \/ a # b

IsFinite(a) == a.k = "fin"

DigitVal(t) ==
    CASE t = "0" -> 0 [] t = "1" -> 1 [] t = "2" -> 2 [] t = "3" -> 3 [] t = "4" -> 4
      [] t = "5" -> 5 [] t = "6" -> 6 [] t = "7" -> 7 [] t = "8" -> 8 [] t = "9" -> 9

RECURSIVE DigitsVal(_)
DigitsVal(ds) == IF ds = <<>> THEN 0 ELSE 10 * DigitsVal(SubSeq(ds, 1, Len(ds) - 1)) + DigitVal(ds[Len(ds)])

\* the unsigned part of a float literal: digits with at most one ".", at least one digit
IsNumeral(s) ==
    /\ \A i \in 1..Len(s) : s[i] \in Digit \cup {"."}
    /\ count(s, ".") <= 1
    /\ \E i \in 1..Len(s) : s[i] \in Digit

NumeralVal(s) ==
    LET dot == find(s, ".")
        ds == SelectSeq(s, LAMBDA t : t \in Digit)
    IN Fin(DigitsVal(ds), IF dot = 0 THEN 0 ELSE Len(s) - dot)

Negate(a) == IF a.k = "nan" THEN a ELSE [a EXCEPT !.m = -a.m]

\* float(s): [ok |-> FALSE] stands for ValueError
unsigned_float(u) ==
    IF Len(u) = 1 /\ lower_tok(u[1]) = "inf" THEN [ok |-> TRUE, v |-> PosInf]
    ELSE IF Len(u) = 1 /\ lower_tok(u[1]) = "nan" THEN [ok |-> TRUE, v |-> NaN]
    ELSE IF IsNumeral(u) THEN [ok |-> TRUE, v |-> NumeralVal(u)]
    ELSE [ok |-> FALSE, v |-> Zero]

float(s) ==
    LET t == strip(s)
    IN IF t = <<>> THEN [ok |-> FALSE, v |-> Zero]
       ELSE IF Head(t) = "-"
            THEN LET r == unsigned_float(Tail(t)) IN [ok |-> r.ok, v |-> Negate(r.v)]
       ELSE IF Head(t) = "+" THEN unsigned_float(Tail(t))
       ELSE unsigned_float(t)

-----------------------------------------------------------------------------
(* re: a pattern is a sequence of pieces, each a character class repeated  *)
(* greedily between min and max times.  The match at a start position is   *)
(* the one backtracking finds first: the longest first piece for which the *)
(* rest matches, then the longest second piece, and so on.                 *)

\* max < 0: no upper limit
Piece(cls, min, max) == [cls |-> cls, min |-> min, max |-> max]
One(t) == Piece({t}, 1, 1)
Opt(t) == Piece({t}, 0, 1)
Star(cls) == Piece(cls, 0, -1)
Plus(cls) == Piece(cls, 1, -1)

RECURSIVE RunLen(_, _, _, _)
RunLen(text, pos, cls, max) ==
    IF max = 0 \/ pos > Len(text) \/ text[pos] \notin cls THEN 0
    ELSE 1 + RunLen(text, pos + 1, cls, IF max < 0 THEN max ELSE max - 1)

NoMatch == [ok |-> FALSE, ends |-> <<>>]

\* pieces k.. of ps matched at pos; toEnd: the pattern ends with $.
\* ends[j] is the position after piece k+j-1.
RECURSIVE MatchPieces(_, _, _, _, _)
RECURSIVE TryLen(_, _, _, _, _, _)
MatchPieces(text, ps, k, pos, toEnd) ==
    IF k > Len(ps)
    THEN IF toEnd /\ pos # Len(text) + 1 THEN NoMatch ELSE [ok |-> TRUE, ends |-> <<>>]
    ELSE TryLen(text, ps, k, pos, toEnd, RunLen(text, pos, ps[k].cls, ps[k].max))

TryLen(text, ps, k, pos, toEnd, n) ==
    IF n < ps[k].min THEN NoMatch
    ELSE LET r == MatchPieces(text, ps, k + 1, pos + n, toEnd)
         IN IF r.ok THEN [ok |-> TRUE, ends |-> <<pos + n>> \o r.ends]
            ELSE TryLen(text, ps, k, pos, toEnd, n - 1)

\* re.search: the leftmost start at or after from where ps matches; 0 when none
RECURSIVE SearchFrom(_, _, _, _)
SearchFrom(text, ps, from, toEnd) ==
    IF from > Len(text) THEN 0
    ELSE IF MatchPieces(text, ps, 1, from, toEnd).ok THEN from
    ELSE SearchFrom(text, ps, from + 1, toEnd)

\* the text of pieces i..j of a match m that starts at start
Group(text, start, m, i, j) ==
    SubSeq(text, IF i = 1 THEN start ELSE m.ends[i - 1], m.ends[j] - 1)

-----------------------------------------------------------------------------
(* app/utils.py *)

\* r"<\s*=?\s*(\d+\.?\d*)" and r">\s*=?\s*(\d+\.?\d*)": the group is pieces 5..7
BoundPattern(sign) ==
    <<One(sign), Star(Space), Opt("="), Star(Space), Plus(Digit), Opt("."), Star(Digit)>>

\* re.search(BoundPattern(sign), s), then float(match.group(1))
bound_search(s, sign) ==
    LET ps == BoundPattern(sign)
        at == SearchFrom(s, ps, 1, FALSE)
    IN IF at = 0 THEN [ok |-> FALSE, v |-> Zero]
       ELSE float(Group(s, at, MatchPieces(s, ps, 1, at, FALSE), 5, 7))

\* Case 1: "X-Y" (no "<", no ">", exactly two parts, both floats)
range_case1(s) ==
    LET parts == split(s, "-")
    IN IF contains(s, "-") /\ ~(contains(s, "<") \/ contains(s, ">")) /\ Len(parts) = 2
            /\ float(strip(parts[1])).ok /\ float(strip(parts[2])).ok
       THEN [ok |-> TRUE, min |-> float(strip(parts[1])).v, max |-> float(strip(parts[2])).v]
       ELSE [ok |-> FALSE, min |-> Zero, max |-> Zero]

\* a variant of range_case2 that accepts the sign at the start of s only
range_case2_as_anchored(s) ==
    LET ps == BoundPattern("<")
        m == MatchPieces(s, ps, 1, 1, TRUE)
    IN IF m.ok THEN [ok |-> TRUE, min |-> NegInf, max |-> float(Group(s, 1, m, 5, 7)).v]
       ELSE [ok |-> FALSE, min |-> Zero, max |-> Zero]

\* Case 2: "< X" or "<= X"
range_case2(s) ==
    IF contains(s, "<") /\ bound_search(s, "<").ok
    THEN [ok |-> TRUE, min |-> NegInf, max |-> bound_search(s, "<").v]
    ELSE [ok |-> FALSE, min |-> Zero, max |-> Zero]

\* Case 3: "> X" or ">= X"
range_case3(s) ==
    IF contains(s, ">") /\ bound_search(s, ">").ok
    THEN [ok |-> TRUE, min |-> bound_search(s, ">").v, max |-> PosInf]
    ELSE [ok |-> FALSE, min |-> Zero, max |-> Zero]

\* the default when parsing fails
range_default == [ok |-> TRUE, min |-> Zero, max |-> Zero]

parse_reference_range(range_str) ==
    LET s == strip(range_str)
    IN IF range_case1(s).ok THEN range_case1(s)
       ELSE IF range_case2(s).ok THEN range_case2(s)
       ELSE IF range_case3(s).ok THEN range_case3(s)
       ELSE range_default

\* a variant of out_of_range that counts a value equal to the lower bound as below it
out_of_range_as_strict_min(value, r) ==
    (Ne(r.min, NegInf) /\ ~Gt(value, r.min)) \/ (Ne(r.max, PosInf) /\ Gt(value, r.max))

\* a variant of out_of_range that counts a value equal to the upper bound as above it
out_of_range_as_closed_max(value, r) ==
    (Ne(r.min, NegInf) /\ Lt(value, r.min)) \/ (Ne(r.max, PosInf) /\ ~Lt(value, r.max))

\* the comparison of is_value_out_of_range against the parsed range r
out_of_range(value, r) ==
    (Ne(r.min, NegInf) /\ Lt(value, r.min)) \/ (Ne(r.max, PosInf) /\ Gt(value, r.max))

is_value_out_of_range(value, reference_range) ==
    out_of_range(value, parse_reference_range(reference_range))

\* r"\s*\([^)]*\)\s*$" and r"\s*-\s*Result\s*$"
TrailingRemark == <<Star(Space), One("("), Star(Token \ {")"}), One(")"), Star(Space)>>
TrailingResult == <<Star(Space), One("-"), Star(Space), One("Result"), Star(Space)>>

\* re.sub(pattern, "", name) for a pattern that ends with $
sub_trailing(ps, name) ==
    LET at == SearchFrom(name, ps, 1, TRUE)
    IN IF at = 0 THEN name ELSE SubSeq(name, 1, at - 1)

clean_test_name(name) ==
    strip(sub_trailing(TrailingResult, sub_trailing(TrailingRemark, collapse(name))))

\* re.search(r"[a-zA-Z/%]+", reference_range): the first run of letters, "/" and "%"
UnitClass == Word \cup {"/", "%"}

extract_unit(reference_range) ==
    LET at == SearchFrom(reference_range, <<Plus(UnitClass)>>, 1, FALSE)
    IN IF at = 0 THEN <<>>
       ELSE SubSeq(reference_range, at, at + RunLen(reference_range, at, UnitClass, -1) - 1)

\* test_value: a float (isnum) or the raw string
NumValue(v) == [isnum |-> TRUE, num |-> v, str |-> <<>>]
StrValue(s) == [isnum |-> FALSE, num |-> Zero, str |-> s]

coerce_value(value_str) ==
    IF float(value_str).ok THEN NumValue(float(value_str).v) ELSE StrValue(value_str)

\* a variant of flag_out_of_range without the isinstance test (a string counts as 0)
flag_as_unguarded(value, reference_range) ==
    is_value_out_of_range(IF value.isnum THEN value.num ELSE Zero, reference_range)

\* out_of_range = False; if isinstance(value, float): out_of_range = is_value_out_of_range(...)
flag_out_of_range(value, reference_range) ==
    IF value.isnum THEN is_value_out_of_range(value.num, reference_range) ELSE FALSE

format_lab_test(test_name, value_str, reference_range) ==
    [test_name |-> clean_test_name(test_name),
     test_value |-> coerce_value(value_str),
     bio_reference_range |-> reference_range,
     test_unit |-> extract_unit(reference_range),
     lab_test_out_of_range |-> flag_out_of_range(coerce_value(value_str), reference_range)]

-----------------------------------------------------------------------------
(* app/lab_test_parser.py: LabTestParser *)

NA == <<"N", "/", "A">>

NameClass == Word \cup Digit \cup Space \cup {"-", "+", "/"}     \* [A-Za-z0-9\s\-\+\/]
ValueClass == Digit \cup {"."}                                   \* [0-9\.]
RangeClass == Digit \cup Space \cup {".", "<", ">", "-"}         \* [0-9\.<>\-\s\.]
Dots == Piece({"."}, 2, -1)                                      \* \.{2,}

\* self.patterns; in every pattern the name is piece 1
Pattern1 == <<Plus(NameClass), Star(Space), One(":"), Star(Space), Plus(ValueClass), Star(Space)>>
Pattern1Range == <<One("("), Plus(RangeClass), One(")")>>     \* (?:\(([0-9\.<>\-\s\.]+)\))?
Pattern2 == <<Plus(NameClass), Plus(Space), Plus(ValueClass), Plus(Space), Plus(RangeClass)>>
Pattern3 == <<Plus(NameClass), Dots, Star(Space), Plus(ValueClass), Dots, Star(Space),
              Plus(RangeClass)>>
Pattern4 == <<Plus(NameClass), Plus(Space), One("Result"), Star(Space), One(":"), Star(Space),
              Plus(ValueClass), Plus(Space), Plus(RangeClass)>>

patterns == <<Pattern1, Pattern2, Pattern3, Pattern4>>

\* the piece that holds the value, and the piece that holds the range (0: the optional group)
ValuePiece == <<5, 3, 4, 7>>
RangePiece == <<0, 5, 7, 9>>

table_header_patterns ==
    {<<One("test"), Star(Space), One("name")>>, <<One("parameter")>>, <<One("investigation")>>,
     <<One("lab"), Star(Space), One("test")>>}

value_header_patterns == {<<One("result")>>, <<One("value")>>, <<One("reading")>>}

range_header_patterns ==
    {<<One("reference"), Star(Space), One("range")>>, <<One("normal"), Star(Space), One("range")>>,
     <<One("bio"), Star(Space), One("reference")>>, <<One("expected"), Star(Space), One("range")>>}

\* any(re.search(pattern, s) for pattern in pats)
any_search(pats, s) == \E ps \in pats : SearchFrom(s, ps, 1, FALSE) # 0

\* one match of patterns[k] at start, as [ok, end, name, value, range]; range = <<>>: group 3 is None
match_pattern(k, text, start) ==
    LET ps == patterns[k]
        m == MatchPieces(text, ps, 1, start, FALSE)
        last == m.ends[Len(ps)]
        g == MatchPieces(text, Pattern1Range, 1, last, FALSE)
    IN IF ~m.ok THEN [ok |-> FALSE, end |-> 0, name |-> <<>>, value |-> <<>>, range |-> <<>>]
       ELSE [ok |-> TRUE,
             end |-> IF k = 1 /\ g.ok THEN g.ends[3] ELSE last,
             name |-> Group(text, start, m, 1, 1),
             value |-> Group(text, start, m, ValuePiece[k], ValuePiece[k]),
             range |-> IF k = 1 THEN (IF g.ok THEN Group(text, last, g, 2, 2) ELSE <<>>)
                       ELSE Group(text, start, m, RangePiece[k], RangePiece[k])]

\* re.finditer(patterns[k], text) from position from: the matches left to right, not overlapping
RECURSIVE finditer(_, _, _)
finditer(k, text, from) ==
    LET at == SearchFrom(text, patterns[k], from, FALSE)
        m == match_pattern(k, text, at)
    IN IF at = 0 THEN <<>> ELSE <<m>> \o finditer(k, text, m.end)

\* the body of the loop over matches: one record per match
match_record(m) ==
    format_lab_test(strip(m.name), strip(m.value),
                    IF m.range # <<>> THEN strip(m.range) ELSE NA)

\* pattern_records, were the loop over the templates left at the first one that matches
pattern_records_as_until_match(k, text) ==
    IF \E j \in 1..(k - 1) : finditer(j, text, 1) # <<>> THEN <<>>
    ELSE [i \in 1..Len(finditer(k, text, 1)) |-> match_record(finditer(k, text, 1)[i])]

pattern_records(k, text) ==
    LET ms == finditer(k, text, 1) IN [i \in 1..Len(ms) |-> match_record(ms[i])]

has_test_header(line) == any_search(table_header_patterns, lower(line))
has_value_header(line) == any_search(value_header_patterns, lower(line))
has_range_header(line) == any_search(range_header_patterns, lower(line))

RECURSIVE SumSeq(_)
SumSeq(ns) == IF ns = <<>> THEN 0 ELSE Head(ns) + SumSeq(Tail(ns))

delimiter_count(lines, d) == SumSeq([i \in 1..Len(lines) |-> count(lines[i], d)])

_is_tabular_format(text) ==
    LET lines == split(text, "\n")
    IN \/ \E i \in 1..Len(lines) : has_test_header(lines[i]) /\ has_value_header(lines[i])
       \* count > len(lines) * 1.5
       \/ \E d \in {"|", "\t", ","} : 2 * delimiter_count(lines, d) > 3 * Len(lines)

\* header_columns: -1 stands for a key that is not in the dict
NoColumns == [test_name |-> -1, value |-> -1, range |-> -1]

\* for j, col in enumerate(columns): the first role that matches col gets index j (0-based)
RECURSIVE map_columns(_, _, _)
map_columns(hc, columns, j) ==
    IF j >= Len(columns) THEN hc
    ELSE LET col == columns[j + 1]
         IN map_columns(
                IF any_search(table_header_patterns, col) THEN [hc EXCEPT !.test_name = j]
                ELSE IF any_search(value_header_patterns, col) THEN [hc EXCEPT !.value = j]
                ELSE IF any_search(range_header_patterns, col) THEN [hc EXCEPT !.range = j]
                ELSE hc,
                columns, j + 1)

MaxOf(S) == CHOOSE x \in S : \A y \in S : y <= x

\* max(header_columns.values()) over the keys present
max_column(hc) == MaxOf({c \in {hc.test_name, hc.value, hc.range} : c >= 0})

\* [col.strip() for col in ...]
strip_all(parts) == [i \in 1..Len(parts) |-> strip(parts[i])]

\* if test_name and value_str: lab_tests.append(format_lab_test(...))
record_of(test_name, value_str, reference_range) ==
    IF test_name # <<>> /\ value_str # <<>>
    THEN <<format_lab_test(test_name, value_str, reference_range)>>
    ELSE <<>>

\* data_cols_record, were the range column never read
data_cols_record_as_no_range(data_cols, hc) ==
    IF Len(data_cols) <= max_column(hc) THEN <<>>
    ELSE record_of(data_cols[hc.test_name + 1], data_cols[hc.value + 1], NA)

\* the cells of one data line: <<record>> or <<>>
data_cols_record(data_cols, hc) ==
    IF Len(data_cols) <= max_column(hc) THEN <<>>
    ELSE record_of(data_cols[hc.test_name + 1], data_cols[hc.value + 1],
                   IF hc.range >= 0 /\ hc.range < Len(data_cols)
                   THEN data_cols[hc.range + 1] ELSE NA)

\* a stripped data line of the delimited table: <<record>> or <<>>
data_line_record(data_line, delimiter, hc) ==
    IF data_line = <<>> THEN <<>>
    ELSE data_cols_record(strip_all(split(data_line, delimiter)), hc)

data_row(line, delimiter, hc) == data_line_record(strip(line), delimiter, hc)

RECURSIVE data_rows(_, _, _, _)
data_rows(lines, i, delimiter, hc) ==
    IF i > Len(lines) THEN <<>>
    ELSE data_row(lines[i], delimiter, hc) \o data_rows(lines, i + 1, delimiter, hc)

\* potential_delimiters of a header line
potential_delimiters(line) ==
    <<"|", "\t">> \o (IF contains(line, ",") /\ ~(count(line, ",") > 5) THEN <<",">> ELSE <<>>)

\* [col.strip().lower() for col in line.split(delimiter)]
header_cells(parts) == [j \in 1..Len(parts) |-> lower(strip(parts[j]))]

\* for delimiter in potential_delimiters, on header line i: [ret, tests, hc]
RECURSIVE try_delimiters(_, _, _, _)

\* if lab_tests: return lab_tests; otherwise the next delimiter
delimiter_rows(lines, i, ds, hc, tests) ==
    IF tests # <<>> THEN [ret |-> TRUE, tests |-> tests, hc |-> hc]
    ELSE try_delimiters(lines, i, Tail(ds), hc)

\* if 'test_name' in header_columns and 'value' in header_columns: the data rows
delimiter_columns(lines, i, ds, hc) ==
    IF hc.test_name >= 0 /\ hc.value >= 0
    THEN delimiter_rows(lines, i, ds, hc, data_rows(lines, i + 1, Head(ds), hc))
    ELSE try_delimiters(lines, i, Tail(ds), hc)

try_delimiters(lines, i, ds, hc) ==
    IF ds = <<>> THEN [ret |-> FALSE, tests |-> <<>>, hc |-> hc]
    ELSE IF ~contains(lines[i], Head(ds)) THEN try_delimiters(lines, i, Tail(ds), hc)
    ELSE delimiter_columns(lines, i, ds,
                           map_columns(hc, header_cells(split(lines[i], Head(ds))), 0))

\* for i, line in enumerate(lines): [ret, tests, header_line_idx]; idx is 1-based, 0: none
RECURSIVE header_scan(_, _, _, _)

\* after the delimiters of header line i: return the records or go on to the next line
header_line(lines, i, r) ==
    IF r.ret THEN [ret |-> TRUE, tests |-> r.tests, idx |-> i]
    ELSE header_scan(lines, i + 1, i, r.hc)

header_scan(lines, i, idx, hc) ==
    IF i > Len(lines) THEN [ret |-> FALSE, tests |-> <<>>, idx |-> idx]
    ELSE IF has_test_header(lines[i]) /\ has_value_header(lines[i])
         THEN header_line(lines, i, try_delimiters(lines, i, potential_delimiters(lines[i]), hc))
    ELSE header_scan(lines, i + 1, idx, hc)

\* the positional fallback on the tab-separated cells of one line
positional_columns(columns) ==
    IF Len(columns) < 2 THEN <<>>
    ELSE IF any_search(table_header_patterns, lower(columns[1])) THEN <<>>
    ELSE record_of(strip(columns[1]), strip(columns[2]),
                   IF Len(columns) > 2 THEN strip(columns[3]) ELSE NA)

positional_line(line) == IF line = <<>> THEN <<>> ELSE positional_columns(split(line, "\t"))

positional_row(raw) == positional_line(strip(raw))

RECURSIVE positional_rows(_, _)
positional_rows(lines, i) ==
    IF i > Len(lines) THEN <<>>
    ELSE positional_row(lines[i]) \o positional_rows(lines, i + 1)

\* the header scan, then "if header_line_idx == -1" the positional fallback
tabular_lines(lines, r) ==
    IF r.ret THEN r.tests
    ELSE IF r.idx = 0 THEN positional_rows(lines, 1)
    ELSE <<>>

tabular_of(lines) == tabular_lines(lines, header_scan(lines, 1, 0, NoColumns))

_parse_tabular_format(text) == tabular_of(split(text, "\n"))

-----------------------------------------------------------------------------
(* LabTestParser._parse_aggressive *)

\* the alternatives of test_name_patterns[0] and [1], in order
KnownNames1 ==
    <<<<"Hemoglobin">>, <<"WBC">>, <<"RBC">>, <<"Platelets">>, <<"Glucose">>, <<"Cholesterol">>,
      <<"HDL">>, <<"LDL">>, <<"Triglycerides">>, <<"Sodium">>, <<"Potassium">>, <<"Chloride">>,
      <<"Calcium">>, <<"Magnesium">>, <<"Creatinine">>, <<"BUN">>, <<"ALT">>, <<"AST">>,
      <<"Bilirubin">>, <<"Albumin">>, <<"ALP">>, <<"HbA", "1", "c">>>>

KnownNames2 ==
    <<<<"TSH">>, <<"T", "3">>, <<"T", "4">>, <<"Vitamin", " ", "D">>, <<"B", "1", "2">>,
      <<"Folate">>, <<"Iron">>, <<"Ferritin">>>>

IsPrefixAt(line, pos, w) ==
    pos + Len(w) - 1 <= Len(line) /\ SubSeq(line, pos, pos + Len(w) - 1) = w

\* the first alternative that matches at pos (0: none)
RECURSIVE first_alt(_, _, _, _)
first_alt(line, pos, alts, n) ==
    IF n > Len(alts) THEN 0
    ELSE IF IsPrefixAt(line, pos, alts[n]) THEN n
    ELSE first_alt(line, pos, alts, n + 1)

\* re.search of an alternation: [ok, start, end] of the leftmost match, end exclusive
RECURSIVE search_alt(_, _, _)
search_alt(line, alts, pos) ==
    IF pos > Len(line) THEN [ok |-> FALSE, start |-> 0, end |-> 0]
    ELSE LET n == first_alt(line, pos, alts, 1)
         IN IF n # 0 THEN [ok |-> TRUE, start |-> pos, end |-> pos + Len(alts[n])]
            ELSE search_alt(line, alts, pos + 1)

\* r"([A-Za-z][A-Za-z\s\-]+)(?=\s*[:=])": a word of one letter needs a second character
OneLetterWord == {"N", "A", "n", "a"}
LabelClass == Word \cup Space \cup {"-"}
LabelLong == <<Piece(Word \ OneLetterWord, 1, 1), Star(LabelClass), Star(Space),
               Piece({":", "="}, 1, 1)>>
LabelShort == <<Piece(OneLetterWord, 1, 1), Plus(LabelClass), Star(Space),
                Piece({":", "="}, 1, 1)>>

LabelAt(line, pos) == IF line[pos] \in OneLetterWord THEN LabelShort ELSE LabelLong

RECURSIVE search_label(_, _)
search_label(line, pos) ==
    IF pos > Len(line) THEN [ok |-> FALSE, start |-> 0, end |-> 0]
    ELSE LET m == MatchPieces(line, LabelAt(line, pos), 1, pos, FALSE)
         IN IF m.ok THEN [ok |-> TRUE, start |-> pos, end |-> m.ends[2]]
            ELSE search_label(line, pos + 1)

\* for pattern in test_name_patterns: the first pattern that is found in the line
search_test_name(line) ==
    IF search_alt(line, KnownNames1, 1).ok THEN search_alt(line, KnownNames1, 1)
    ELSE IF search_alt(line, KnownNames2, 1).ok THEN search_alt(line, KnownNames2, 1)
    ELSE search_label(line, 1)

\* value_pattern r"(\d+\.?\d*)" and range_pattern r"(\d+\.?\d*\s*[-]\s*\d+\.?\d*)"
value_pattern == <<Plus(Digit), Opt("."), Star(Digit)>>
range_pattern == <<Plus(Digit), Opt("."), Star(Digit), Star(Space), One("-"), Star(Space),
                   Plus(Digit), Opt("."), Star(Digit)>>

\* re.search(ps, s).group(1).strip(), <<>> when there is no match
search_group(ps, s) ==
    LET at == SearchFrom(s, ps, 1, FALSE)
    IN IF at = 0 THEN <<>>
       ELSE strip(Group(s, at, MatchPieces(s, ps, 1, at, FALSE), 1, Len(ps)))

has_next_line(lines, i) == i + 1 <= Len(lines) /\ strip(lines[i + 1]) # <<>>

\* the body of the loop over lines, for line i: <<record>> or <<>>
aggressive_line(lines, i) ==
    LET line == lines[i]
        nm == search_test_name(line)
        test_name == strip(SubSeq(line, nm.start, nm.end - 1))
        rest == SubSeq(line, nm.end, Len(line))
        value_str == IF search_group(value_pattern, rest) # <<>>
                     THEN search_group(value_pattern, rest)
                     ELSE IF SearchFrom(rest, value_pattern, 1, FALSE) = 0 /\ has_next_line(lines, i)
                          THEN search_group(value_pattern, lines[i + 1])
                     ELSE <<>>
        reference_range ==
            IF SearchFrom(line, range_pattern, 1, FALSE) # 0 THEN search_group(range_pattern, line)
            ELSE IF has_next_line(lines, i) /\ SearchFrom(lines[i + 1], range_pattern, 1, FALSE) # 0
                 THEN search_group(range_pattern, lines[i + 1])
            ELSE NA
    IN IF strip(line) = <<>> \/ ~nm.ok \/ test_name = <<>> \/ value_str = <<>> THEN <<>>
       ELSE <<format_lab_test(test_name, value_str, reference_range)>>

RECURSIVE aggressive_lines(_, _)
aggressive_lines(lines, i) ==
    IF i > Len(lines) THEN <<>>
    ELSE aggressive_line(lines, i) \o aggressive_lines(lines, i + 1)

_parse_aggressive(text) == aggressive_lines(split(text, "\n"), 1)

-----------------------------------------------------------------------------
(* LabTestParser.parse_text *)

\* for pattern in self.patterns: the records of patterns k..4, in order
RECURSIVE all_pattern_records(_, _)
all_pattern_records(k, text) ==
    IF k > Len(patterns) THEN <<>>
    ELSE pattern_records(k, text) \o all_pattern_records(k + 1, text)

\* if lab_tests: return lab_tests; return self._parse_aggressive(text)
patterns_or_aggressive(text, tests) ==
    IF tests # <<>> THEN tests ELSE _parse_aggressive(text)

parse_text(text) ==
    IF _is_tabular_format(text) THEN _parse_tabular_format(text)
    ELSE patterns_or_aggressive(text, all_pattern_records(1, text))

-----------------------------------------------------------------------------
(* LabTestParser.parse_table_data *)

\* the header scan of the first row: the first role that matches a cell gets its index
RECURSIVE table_columns(_, _, _)
table_columns(hc, row, j) ==
    IF j >= Len(row) THEN hc
    ELSE LET cell_lower == lower(row[j + 1])
         IN table_columns(
                IF any_search(table_header_patterns, cell_lower) THEN [hc EXCEPT !.test_name = j]
                ELSE IF any_search(value_header_patterns, cell_lower) THEN [hc EXCEPT !.value = j]
                ELSE IF any_search(range_header_patterns, cell_lower) THEN [hc EXCEPT !.range = j]
                ELSE hc,
                row, j + 1)

\* [header_row, test_name, value, range]: header_row is 0, or -1 when no header was found
infer_columns(table_data) ==
    LET hc == table_columns(NoColumns, table_data[1], 0)
    IN IF hc.test_name = -1 /\ hc.value = -1
       THEN [header_row |-> -1, test_name |-> 0, value |-> 1,
             range |-> IF Len(table_data[1]) > 2 THEN 2 ELSE hc.range]
       ELSE [header_row |-> 0, test_name |-> hc.test_name, value |-> hc.value, range |-> hc.range]

\* row[c] for a Python index c >= -1 (row[-1] is the last cell)
cell_at(row, c) == IF c = -1 THEN row[Len(row)] ELSE row[c + 1]

table_row(row, cols) ==
    LET test_name == strip(cell_at(row, cols.test_name))
        value_str == strip(cell_at(row, cols.value))
        reference_range == IF cols.range >= 0 /\ cols.range < Len(row)
                           THEN strip(cell_at(row, cols.range)) ELSE NA
    IN IF Len(row) <= max_column(cols) THEN <<>>
       ELSE IF test_name # <<>> /\ value_str # <<>>
            THEN <<format_lab_test(test_name, value_str, reference_range)>>
       ELSE <<>>

RECURSIVE table_rows(_, _, _)
table_rows(table_data, i, cols) ==
    IF i > Len(table_data) THEN <<>>
    ELSE table_row(table_data[i], cols) \o table_rows(table_data, i + 1, cols)

parse_table_data(table_data) ==
    IF table_data = <<>> \/ table_data[1] = <<>> THEN <<>>
    ELSE LET cols == infer_columns(table_data)
         IN table_rows(table_data, cols.header_row + 2, cols)

-----------------------------------------------------------------------------
(* app/text_extractor.py: TextExtractor._group_by_lines                    *)
(*                                                                         *)
(* A box is [text, x, y, width, height], in integer pixels.                *)

Abs(n) == IF n < 0 THEN -n ELSE n

\* sorted(boxes, key=lambda box: box[key]): the sort is stable, a box goes
\* behind the boxes of the same key that come before it in the input
insort(boxes, box, key) ==
    SubSeq(boxes, 1, Cardinality({i \in DOMAIN boxes : boxes[i][key] <= box[key]}))
        \o <<box>>
        \o SubSeq(boxes, Cardinality({i \in DOMAIN boxes : boxes[i][key] <= box[key]}) + 1,
                  Len(boxes))

RECURSIVE sorted(_, _)
sorted(boxes, key) ==
    IF boxes = <<>> THEN <<>>
    ELSE insort(sorted(SubSeq(boxes, 1, Len(boxes) - 1), key), boxes[Len(boxes)], key)

\* the join test, were the reference the box that joined last rather than the
\* first box of the line
on_current_line_as_chained(box, current_line, line_height) ==
    2 * Abs(box.y - current_line[Len(current_line)].y) <= line_height

\* abs(box['y'] - current_y) <= y_tolerance, where current_y = current_line[0]['y']
\* and y_tolerance = line_height * 0.5
on_current_line(box, current_line, line_height) ==
    2 * Abs(box.y - current_line[1].y) <= line_height

\* the loop over sorted_boxes[1:] and the last line
RECURSIVE group_from(_, _, _, _, _)
group_from(sorted_boxes, i, lines, current_line, line_height) ==
    IF i > Len(sorted_boxes) THEN Append(lines, sorted(current_line, "x"))
    ELSE IF on_current_line(sorted_boxes[i], current_line, line_height)
    THEN group_from(sorted_boxes, i + 1, lines, Append(current_line, sorted_boxes[i]),
                    line_height)
    ELSE group_from(sorted_boxes, i + 1, Append(lines, sorted(current_line, "x")),
                    <<sorted_boxes[i]>>, sorted_boxes[i].height)

group_sorted(sorted_boxes) ==
    group_from(sorted_boxes, 2, <<>>, <<sorted_boxes[1]>>, sorted_boxes[1].height)

_group_by_lines(text_boxes) ==
    IF text_boxes = <<>> THEN <<>> ELSE group_sorted(sorted(text_boxes, "y"))

-----------------------------------------------------------------------------
(* app/text_extractor.py: TextExtractor._detect_columns                    *)
(*                                                                         *)
(* Pixel coordinates of boxes and lines are integers.  The edges of the    *)
(* histogram are first_edge + i * (last_edge - first_edge) / hist_bins, so *)
(* every coordinate derived from them is a multiple of 1 / hist_bins px; a *)
(* column start or end is held as that multiple (px * hist_bins).          *)

hist_bins == 20

MinOf(S) == CHOOSE x \in S : \A y \in S : x <= y

x_starts(lines) == [j \in DOMAIN lines |-> lines[j].x]
x_ends(lines) == [j \in DOMAIN lines |-> lines[j].x + lines[j].width]

min_x_starts(lines) == MinOf({lines[j].x : j \in DOMAIN lines})
max_x_ends(lines) == MaxOf({lines[j].x + lines[j].width : j \in DOMAIN lines})

\* hist_range = (min(x_starts), max(x_ends))
hist_range(lines) == <<min_x_starts(lines), max_x_ends(lines)>>

\* np.histogram widens an empty range by half a pixel on each side
first_edge(r) == IF r[1] = r[2] THEN hist_bins * r[1] - hist_bins \div 2 ELSE hist_bins * r[1]
last_edge(r) == IF r[1] = r[2] THEN hist_bins * r[2] + hist_bins \div 2 ELSE hist_bins * r[2]

\* the width of a bin, in units of 1 / hist_bins px
bin_width(r) == (last_edge(r) - first_edge(r)) \div hist_bins

\* bin_edges[i], i in 0..hist_bins
bin_edges(r, i) == first_edge(r) + i * bin_width(r)

\* the bin of x: bins are closed on the left and open on the right, the last
\* one is closed on both sides
bin_index(q) == IF q >= hist_bins THEN hist_bins - 1 ELSE q
bin_of(r, x) == bin_index((hist_bins * x - first_edge(r)) \div bin_width(r))

\* hist, bin_edges = np.histogram(x_starts, bins=hist_bins, range=hist_range)
histogram(xs, r) ==
    [i \in 0..(hist_bins - 1) |-> Cardinality({j \in DOMAIN xs : bin_of(r, xs[j]) = i})]

\* the test of the loop of lines 214-216
is_peak(hist, i) == hist[i] > hist[i - 1] /\ hist[i] > hist[i + 1] /\ hist[i] > 1

RECURSIVE peaks_from(_, _)
peaks_from(hist, i) ==
    IF i >= hist_bins - 1 THEN <<>>
    ELSE IF is_peak(hist, i) THEN <<i>> \o peaks_from(hist, i + 1)
    ELSE peaks_from(hist, i + 1)

\* for i in range(1, len(hist) - 1)
peak_indices(hist) == peaks_from(hist, 1)

\* column_starts = [bin_edges[i] for i in peak_indices]
peak_starts(r, peaks) == [k \in DOMAIN peaks |-> bin_edges(r, peaks[k])]

\* with_leftmost, were the smallest left x added only when there is no peak
with_leftmost_as_only_when_empty(column_starts, lo) ==
    IF column_starts = <<>> THEN <<hist_bins * lo>> ELSE column_starts

\* lines 222-224: the leftmost column
with_leftmost(column_starts, lo) ==
    IF column_starts = <<>> THEN <<hist_bins * lo>>
    ELSE IF column_starts[1] > hist_bins * (lo + 20) THEN <<hist_bins * lo>> \o column_starts
    ELSE column_starts

\* lines 227-233: (col_start, col_end) of each column
column_bounds(column_starts, hi) ==
    [i \in DOMAIN column_starts |->
        <<column_starts[i],
          IF i < Len(column_starts) THEN column_starts[i + 1] - hist_bins
          ELSE hist_bins * hi>>]

_detect_columns(lines) ==
    IF lines = <<>> THEN <<>>
    ELSE column_bounds(
             with_leftmost(
                 peak_starts(hist_range(lines),
                             peak_indices(histogram(x_starts(lines), hist_range(lines)))),
                 min_x_starts(lines)),
             max_x_ends(lines))

-----------------------------------------------------------------------------
(* app/text_extractor.py: extract_structured_data and extract_table_data   *)
(*                                                                         *)
(* The image is known by the boxes the OCR finds in it.                    *)

\* lines 86-100: the text and the bounding box of one line of boxes
structured_line(line) ==
    [text |-> join(<<" ">>, [j \in DOMAIN line |-> line[j].text]),
     x |-> MinOf({line[j].x : j \in DOMAIN line}),
     y |-> MinOf({line[j].y : j \in DOMAIN line}),
     width |-> MaxOf({line[j].x + line[j].width : j \in DOMAIN line})
                   - MinOf({line[j].x : j \in DOMAIN line}),
     height |-> MaxOf({line[j].y + line[j].height : j \in DOMAIN line})
                    - MinOf({line[j].y : j \in DOMAIN line})]

structured_lines(lines) == [k \in DOMAIN lines |-> structured_line(lines[k])]

extract_structured_data(text_boxes) == structured_lines(_group_by_lines(text_boxes))

\* line['x'] >= col_start - 10 and line['x'] < col_end + 10
in_column(line, column) ==
    /\ hist_bins * line.x >= column[1] - 10 * hist_bins
    /\ hist_bins * line.x < column[2] + 10 * hist_bins

\* the index of the first column the line belongs to (from 1), 0 when there is none
RECURSIVE column_of(_, _, _)
column_of(line, columns, i) ==
    IF i > Len(columns) THEN 0
    ELSE IF in_column(line, columns[i]) THEN i
    ELSE column_of(line, columns, i + 1)

\* [""] * len(columns)
empty_row(columns) == [i \in DOMAIN columns |-> <<>>]

\* any(cell for cell in current_row)
any_cell(current_row) == \E i \in DOMAIN current_row : current_row[i] # <<>>

\* current_row[i] = line['text'].strip()
set_cell(current_row, i, line) == [current_row EXCEPT ![i] = strip(line.text)]

\* the loop over the lines and the last row
RECURSIVE rows_from(_, _, _, _, _)
rows_from(lines, j, columns, table_data, current_row) ==
    IF j > Len(lines)
    THEN IF any_cell(current_row) THEN Append(table_data, current_row) ELSE table_data
    ELSE IF column_of(lines[j], columns, 1) > 0
    THEN rows_from(lines, j + 1, columns, table_data,
                   set_cell(current_row, column_of(lines[j], columns, 1), lines[j]))
    ELSE IF any_cell(current_row)
    THEN rows_from(lines, j + 1, columns, Append(table_data, current_row), empty_row(columns))
    ELSE rows_from(lines, j + 1, columns, table_data, current_row)

table_of(lines, columns) == rows_from(lines, 1, columns, <<>>, empty_row(columns))

table_of_lines(lines) == table_of(lines, _detect_columns(lines))

extract_table_data(text_boxes) == table_of_lines(extract_structured_data(text_boxes))

-----------------------------------------------------------------------------
(* app/image_processor.py: detect_table_regions                            *)
(*                                                                         *)
(* A contour is known by cv2.contourArea (a float) and cv2.boundingRect    *)
(* (x, y, w, h in integer pixels, w and h at least 1).                     *)

\* area > 1000
large_enough(contour) == Gt(contour.area, Fin(1000, 0))

\* aspect_ratio = w / h; aspect_ratio > 0.5 and aspect_ratio < 5.  The
\* quotient of two integers is above 0.5 iff 2 * w > h and below 5 iff
\* w < 5 * h (0.5 and 5 are floats, and the division rounds monotonically).
table_shaped(contour) == 2 * contour.w > contour.h /\ contour.w < 5 * contour.h

boundingRect(contour) == <<contour.x, contour.y, contour.w, contour.h>>

RECURSIVE regions_from(_, _)
regions_from(contours, i) ==
    IF i > Len(contours) THEN <<>>
    ELSE IF large_enough(contours[i]) /\ table_shaped(contours[i])
    THEN <<boundingRect(contours[i])>> \o regions_from(contours, i + 1)
    ELSE regions_from(contours, i + 1)

detect_table_regions(contours) == regions_from(contours, 1)

-----------------------------------------------------------------------------
(* Inputs *)

MaxRangeLen == 4
MaxValueLen == 2
MaxLines == 2
MaxRegions == 2
MaxColumnLines == 4
MaxBoxes == 3
MaxContours == 2
MaxInvocations == 2
MaxGridRows == 2

\* two letter runs side by side would be one word
WellFormed(s) == \A i \in 1..(Len(s) - 1) : ~(s[i] \in Word /\ s[i + 1] \in Word)

StrsUpTo(alphabet, n) == {s \in UNION {[1..k -> alphabet] : k \in 0..n} : WellFormed(s)}

RangeAlphabet == {"1", ".", "-", "<", ">", "=", " ", "mg"}
RangeStrs == StrsUpTo(RangeAlphabet, MaxRangeLen)

ValueAlphabet == {"0", "1", "3", ".", "-", "inf", "nan", "mg"}
ValueStrs == StrsUpTo(ValueAlphabet, MaxValueLen)

FmtBounds == {<<"1">>, <<"2">>, <<"inf">>, <<"nan">>}
FmtRanges ==
    {a \o <<"-">> \o b : a \in FmtBounds, b \in FmtBounds}
    \cup {<<"<", "2">>, <<"<", "=", "2">>, <<"<", " ", "2", " ", "mg">>, <<">", "1">>,
          <<">", "=", "1">>, NA, <<"1", "-", "2", " ", "mg">>, <<"2">>, <<>>}

FmtNames == {<<"WBC">>, <<"WBC", " ", "(", "a", ")", " ", "-", " ", "Result">>}

LineHemoglobin == <<"Hemoglobin", ":", " ", "1", "4", ".", "2", " ",
                    "(", "1", "2", ".", "0", "-", "1", "6", ".", "0", ")">>
LineWBC == <<"WBC", ":", " ", "1", "1", "0", "0", "0", " ",
             "(", "4", "0", "0", "0", "-", "1", "1", "0", "0", "0", ")">>
LineHeader == <<"Test", " ", "Name", " ", "|", " ", "Result", " ", "|", " ",
                "Reference", " ", "Range">>
LineRow == <<"Glucose", " ", "|", " ", "2", "5", "0", " ", "|", " ", "7", "0", "-", "1", "1", "0">>
LineCommas == <<"Hemoglobin", ":", " ", "1", "4", ".", "2", ",", " ", "1", ",", " ", "2">>
LineBare == <<"TSH", " ", "2">>
LineSpaced == <<"HDL", " ", "6", "0", " ", "4", "0", "-", "6", "0">>

LineBank == {LineHemoglobin, LineWBC, LineHeader, LineRow, LineCommas, LineBare, LineSpaced}

\* the texts of at most MaxLines lines of the bank, and the empty text
Docs == {join(<<"\n">>, ls) : ls \in UNION {[1..n -> LineBank] : n \in 0..MaxLines}}

Scenario1 == join(<<"\n">>, <<LineHemoglobin, LineWBC>>)
Scenario2 == join(<<"\n">>, <<LineHeader, LineRow>>)

\* what the OCR collaborator can return for an image that is not blank
PipeTexts == {<<>>, LineBare, LineCommas, join(<<"\n">>, <<LineHemoglobin, LineHemoglobin>>)}

\* what extract_table_data can return for a region
GridPlain == <<<<<<"WBC">>, <<"5">>>>, <<<<"WBC">>, <<"6">>>>, <<<<"HDL">>, <<"7">>>>>>
GridHeader == <<<<<<"Test", " ", "Name">>, <<"Result">>>>, <<<<"Glucose">>, <<"2", "5", "0">>>>>>
Grids == {<<>>, GridPlain, GridHeader}

\* rows of a table: header rows that name both roles, one role or all three, and data rows
RowHeader == <<<<"Test", " ", "Name">>, <<"Result">>>>
RowNameOnly == <<<<"Test", " ", "Name">>, <<"HDL">>>>
RowValueOnly == <<<<"HDL">>, <<"Value">>>>
RowHeaderRange == <<<<"Test", " ", "Name">>, <<"Result">>, <<"Reference", " ", "Range">>>>
RowGlucose == <<<<"Glucose">>, <<"2", "5", "0">>>>
RowWBC == <<<<"WBC">>, <<"5">>, <<"4", "-", "6">>>>
RowNoValue == <<<<"Glucose">>, <<" ">>>>
RowOneCell == <<<<"TSH">>>>
RowBank == {<<>>, RowHeader, RowNameOnly, RowValueOnly, RowHeaderRange, RowGlucose, RowWBC,
            RowNoValue, RowOneCell}

\* the tables of at most MaxGridRows rows of the bank
Tables == {<<>>} \cup UNION {[1..n -> RowBank] : n \in 1..MaxGridRows}

\* the word boxes of the OCR: two of them share their top y and differ in height
Box(text, x, y, width, height) ==
    [text |-> <<text>>, x |-> x, y |-> y, width |-> width, height |-> height]
BoxBank == {Box("WBC", 0, 0, 30, 10), Box("5", 50, 0, 8, 2), Box("HDL", 0, 3, 30, 10),
            Box("7", 50, 7, 8, 2), Box("TSH", 0, 20, 30, 10)}
BoxesOf(boxes) == {boxes[i] : i \in DOMAIN boxes}
\* the lists of at most MaxBoxes different boxes
BoxLists ==
    UNION {{bs \in [1..n -> BoxBank] : Cardinality(BoxesOf(bs)) = n} : n \in 0..MaxBoxes}

\* the word boxes of a table region: a wide line at the left edge, three lines
\* further right, and a second word on the last of them
TableBoxBank == {Box("WBC", 0, 30, 300, 10), Box("5", 20, 20, 8, 10), Box("HDL", 25, 40, 30, 10),
                 Box("7", 22, 60, 8, 10), Box("TSH", 60, 60, 30, 10)}
TableBoxLists ==
    UNION {{bs \in [1..n -> TableBoxBank] : Cardinality(BoxesOf(bs)) = n} : n \in 0..MaxBoxes}

\* the contours cv2.findContours can return: areas at and around 1000, bounding
\* boxes with w / h at, inside and outside 0.5 and 5
Contour(area, x, y, w, h) == [area |-> area, x |-> x, y |-> y, w |-> w, h |-> h]
ContourBank == {Contour(Fin(1500, 0), 0, 0, 30, 60), Contour(Fin(1500, 0), 5, 0, 100, 20),
                Contour(Fin(1500, 0), 10, 0, 40, 50), Contour(Fin(1000, 0), 15, 0, 40, 40),
                Contour(Fin(10005, 1), 20, 0, 40, 40), Contour(Fin(1500, 0), 25, 0, 20, 100),
                Contour(Fin(1500, 0), 30, 0, 120, 20)}
ContourLists == UNION {[1..n -> ContourBank] : n \in 0..MaxContours}

\* images: one whose full text holds records, one with a table region, one with
\* a region whose grid extraction raises, one with structured lines only
Image(full_text, table_regions, structured_text) ==
    [full_text |-> full_text, table_regions |-> table_regions,
     structured_text |-> structured_text]
Region(raises, table_data, region_text) ==
    [raises |-> raises, table_data |-> table_data, region_text |-> region_text]
ImageBank == {Image(join(<<"\n">>, <<LineHemoglobin, LineHemoglobin>>), <<>>, <<>>),
              Image(<<>>, <<Region(FALSE, GridPlain, <<>>)>>, <<>>),
              Image(<<>>, <<Region(TRUE, <<>>, LineWBC)>>, <<>>),
              Image(<<>>, <<>>, LineBare)}

\* the lines handed to _detect_columns: left x and width, in pixels
ColumnLineBank == {[x |-> 10, width |-> 0], [x |-> 12, width |-> 0], [x |-> 20, width |-> 0],
                   [x |-> 200, width |-> 0], [x |-> 205, width |-> 0],
                   [x |-> 205, width |-> 50]}
ColumnLines == UNION {[1..n -> ColumnLineBank] : n \in 0..MaxColumnLines}

-----------------------------------------------------------------------------
(* State: the values the variables hold while their part is not running *)

NoRange == [ok |-> FALSE, min |-> Zero, max |-> Zero]
NoValue == StrValue(<<>>)
NoRecord == [test_name |-> <<>>, test_value |-> NoValue, bio_reference_range |-> <<>>,
             test_unit |-> <<>>, lab_test_out_of_range |-> FALSE]

RngIdle == [pc |-> "idle", range_str |-> <<>>, s |-> <<>>, result |-> NoRange]
FmtIdle == [pc |-> "idle", test_name |-> <<>>, value_str |-> <<>>, reference_range |-> <<>>,
            value |-> NoValue, test_unit |-> <<>>, out_of_range |-> FALSE, result |-> NoRecord]
PrsIdle == [pc |-> "idle", text |-> <<>>, k |-> 0, lab_tests |-> <<>>, result |-> <<>>,
            via |-> "none"]
NoRequest == [content_type |-> <<>>, decodes |-> FALSE, blank |-> FALSE]
NoException == [type |-> "none", status_code |-> 0, detail |-> ""]
NoResponse == [status_code |-> 0, content |-> [pending |-> TRUE]]

PipeIdle ==
    /\ pc = "idle" /\ req = NoRequest /\ lab_tests = <<>> /\ all_lab_tests = <<>>
    /\ regions = 0 /\ calls = <<>> /\ exc = NoException /\ result = <<>> /\ resp = NoResponse

GrpIdle == [pc |-> "idle", text_boxes |-> <<>>, sorted_boxes |-> <<>>, i |-> 0, lines |-> <<>>,
            current_line |-> <<>>, line_height |-> 0, result |-> <<>>]
DclIdle == [pc |-> "idle", lines |-> <<>>, hist |-> [i \in 0..(hist_bins - 1) |-> 0], i |-> 0,
            peak_indices |-> <<>>, column_starts |-> <<>>, columns |-> <<>>]
TblIdle == [pc |-> "idle", text_boxes |-> <<>>, lines |-> <<>>, columns |-> <<>>, j |-> 0,
            table_data |-> <<>>, current_row |-> <<>>, assigned |-> {}, result |-> <<>>]
DetIdle == [pc |-> "idle", contours |-> <<>>, i |-> 0, table_regions |-> <<>>, result |-> <<>>]
PtdIdle == [pc |-> "idle", table_data |-> <<>>, cols |-> NoColumns, i |-> 0, lab_tests |-> <<>>,
            emitted |-> <<>>, result |-> <<>>]
TwoIdle == [frames |-> <<>>, lists |-> <<>>, lab_test_parser |-> <<>>, text_extractor |-> <<>>]

ExtIdle ==
    /\ grp = GrpIdle /\ dcl = DclIdle /\ tbl = TblIdle /\ det = DetIdle /\ two = TwoIdle
    /\ ptd = PtdIdle

ext_vars == <<grp, dcl, tbl, det, two, ptd>>

pipe_vars == <<pc, req, lab_tests, all_lab_tests, regions, calls, exc, result, resp>>

-----------------------------------------------------------------------------
(* parse_reference_range, case by case *)

RangeInit ==
    /\ rng \in {[RngIdle EXCEPT !.pc = "strip", !.range_str = r] : r \in RangeStrs}
    /\ fmt = FmtIdle /\ prs = PrsIdle /\ ExtIdle /\ PipeIdle

RangeStrip ==
    /\ rng.pc = "strip"
    /\ rng' = [rng EXCEPT !.s = strip(rng.range_str), !.pc = "case1"]
    /\ UNCHANGED <<fmt, prs, ext_vars, pipe_vars>>

RangeCase1 ==
    /\ rng.pc = "case1"
    /\ rng' = IF range_case1(rng.s).ok
              THEN [rng EXCEPT !.result = range_case1(rng.s), !.pc = "done"]
              ELSE [rng EXCEPT !.pc = "case2"]
    /\ UNCHANGED <<fmt, prs, ext_vars, pipe_vars>>

RangeCase2 ==
    /\ rng.pc = "case2"
    /\ rng' = IF range_case2(rng.s).ok
              THEN [rng EXCEPT !.result = range_case2(rng.s), !.pc = "done"]
              ELSE [rng EXCEPT !.pc = "case3"]
    /\ UNCHANGED <<fmt, prs, ext_vars, pipe_vars>>

RangeCase3 ==
    /\ rng.pc = "case3"
    /\ rng' = IF range_case3(rng.s).ok
              THEN [rng EXCEPT !.result = range_case3(rng.s), !.pc = "done"]
              ELSE [rng EXCEPT !.pc = "default"]
    /\ UNCHANGED <<fmt, prs, ext_vars, pipe_vars>>

RangeDefault ==
    /\ rng.pc = "default"
    /\ rng' = [rng EXCEPT !.result = range_default, !.pc = "done"]
    /\ UNCHANGED <<fmt, prs, ext_vars, pipe_vars>>

RangeNext == RangeStrip \/ RangeCase1 \/ RangeCase2 \/ RangeCase3 \/ RangeDefault

SpecRange == RangeInit /\ [][RangeNext]_vars

-----------------------------------------------------------------------------
(* format_lab_test, statement by statement *)

FormatInit ==
    /\ fmt \in {[FmtIdle EXCEPT !.pc = "coerce", !.test_name = n, !.value_str = v,
                                !.reference_range = r] :
                n \in FmtNames, v \in ValueStrs, r \in FmtRanges}
    /\ rng = RngIdle /\ prs = PrsIdle /\ ExtIdle /\ PipeIdle

\* try: value = float(value_str) except ValueError: value = value_str
FormatCoerce ==
    /\ fmt.pc = "coerce"
    /\ fmt' = [fmt EXCEPT !.value = coerce_value(fmt.value_str), !.pc = "unit"]
    /\ UNCHANGED <<rng, prs, ext_vars, pipe_vars>>

FormatUnit ==
    /\ fmt.pc = "unit"
    /\ fmt' = [fmt EXCEPT !.test_unit = extract_unit(fmt.reference_range), !.pc = "flag"]
    /\ UNCHANGED <<rng, prs, ext_vars, pipe_vars>>

FormatFlag ==
    /\ fmt.pc = "flag"
    /\ fmt' = [fmt EXCEPT !.out_of_range = flag_out_of_range(fmt.value, fmt.reference_range),
                          !.pc = "return"]
    /\ UNCHANGED <<rng, prs, ext_vars, pipe_vars>>

FormatReturn ==
    /\ fmt.pc = "return"
    /\ fmt' = [fmt EXCEPT !.result = [test_name |-> clean_test_name(fmt.test_name),
                                      test_value |-> fmt.value,
                                      bio_reference_range |-> fmt.reference_range,
                                      test_unit |-> fmt.test_unit,
                                      lab_test_out_of_range |-> fmt.out_of_range],
                          !.pc = "done"]
    /\ UNCHANGED <<rng, prs, ext_vars, pipe_vars>>

FormatNext == FormatCoerce \/ FormatUnit \/ FormatFlag \/ FormatReturn

SpecFormat == FormatInit /\ [][FormatNext]_vars

-----------------------------------------------------------------------------
(* LabTestParser.parse_text, strategy by strategy *)

ParseInit ==
    /\ prs \in {[PrsIdle EXCEPT !.pc = "tabular", !.text = d] : d \in Docs}
    /\ rng = RngIdle /\ fmt = FmtIdle /\ ExtIdle /\ PipeIdle

\* if self._is_tabular_format(text): return self._parse_tabular_format(text)
ParseTabular ==
    /\ prs.pc = "tabular"
    /\ prs' = IF _is_tabular_format(prs.text)
              THEN [prs EXCEPT !.result = _parse_tabular_format(prs.text), !.via = "tabular",
                               !.pc = "done"]
              ELSE [prs EXCEPT !.k = 1, !.pc = "patterns"]
    /\ UNCHANGED <<rng, fmt, ext_vars, pipe_vars>>

\* one turn of: for pattern in self.patterns
ParsePattern ==
    /\ prs.pc = "patterns" /\ prs.k <= Len(patterns)
    /\ prs' = [prs EXCEPT !.lab_tests = prs.lab_tests \o pattern_records(prs.k, prs.text),
                          !.k = prs.k + 1]
    /\ UNCHANGED <<rng, fmt, ext_vars, pipe_vars>>

\* if lab_tests: return lab_tests
ParsePatternsDone ==
    /\ prs.pc = "patterns" /\ prs.k > Len(patterns)
    /\ prs' = IF prs.lab_tests # <<>>
              THEN [prs EXCEPT !.result = prs.lab_tests, !.via = "patterns", !.pc = "done"]
              ELSE [prs EXCEPT !.pc = "aggressive"]
    /\ UNCHANGED <<rng, fmt, ext_vars, pipe_vars>>

\* return self._parse_aggressive(text)
ParseAggressive ==
    /\ prs.pc = "aggressive"
    /\ prs' = [prs EXCEPT !.result = _parse_aggressive(prs.text), !.via = "aggressive",
                          !.pc = "done"]
    /\ UNCHANGED <<rng, fmt, ext_vars, pipe_vars>>

ParseNext == ParseTabular \/ ParsePattern \/ ParsePatternsDone \/ ParseAggressive

SpecParse == ParseInit /\ [][ParseNext]_vars

-----------------------------------------------------------------------------
(* POST /get-lab-tests: get_lab_tests and process_lab_report *)

ImagePrefix == <<"image", "/">>
ContentTypes == {<<"image", "/", "png">>, <<"text", "/", "plain">>}
Requests == {r \in [content_type : ContentTypes, decodes : BOOLEAN, blank : BOOLEAN] :
                 r.blank => r.decodes}

HTTPException(status_code, detail) ==
    [type |-> "HTTPException", status_code |-> status_code, detail |-> detail]
TesseractError == [type |-> "TesseractError", status_code |-> 0, detail |-> ""]
Cv2Error == [type |-> "cv2.error", status_code |-> 0, detail |-> ""]

\* what the OCR collaborator can return for the image of the request
OcrTexts == IF req.blank THEN {<<>>} ELSE PipeTexts
OcrGrids == IF req.blank THEN {<<>>} ELSE Grids
RegionCounts == IF req.blank THEN {0} ELSE 0..MaxRegions

\* the loop of lines 161-167: the first record of each test_name, in order
RECURSIVE unique_from(_, _, _, _)
unique_from(tests, j, test_names, unique_lab_tests) ==
    IF j > Len(tests) THEN unique_lab_tests
    ELSE IF tests[j].test_name \notin test_names
    THEN unique_from(tests, j + 1, test_names \cup {tests[j].test_name},
                     Append(unique_lab_tests, tests[j]))
    ELSE unique_from(tests, j + 1, test_names, unique_lab_tests)

unique(tests) == unique_from(tests, 1, {}, <<>>)

-----------------------------------------------------------------------------
(* app/main.py: process_lab_report as a function of the image              *)
(*                                                                         *)
(* An image is known by what the collaborators return for it: the text of  *)
(* the full image, its table regions (for each, whether extract_table_data *)
(* raises, the grid it returns and the text of the region) and the text of *)
(* its structured lines.                                                   *)

\* the try / except of lines 134-144 for one region
region_lab_tests(region) ==
    IF region.raises THEN parse_text(region.region_text)
    ELSE parse_table_data(region.table_data)

RECURSIVE regions_lab_tests(_, _)
regions_lab_tests(table_regions, r) ==
    IF r > Len(table_regions) THEN <<>>
    ELSE region_lab_tests(table_regions[r]) \o regions_lab_tests(table_regions, r + 1)

\* if not all_lab_tests: the structured lines of the full image
or_structured(image, all_tests) ==
    IF all_tests = <<>> THEN parse_text(image.structured_text) ELSE all_tests

\* if lab_tests: return lab_tests; otherwise the regions, the fallback and the dedup
or_regions(image, tests) ==
    IF tests # <<>> THEN tests
    ELSE unique(or_structured(image, regions_lab_tests(image.table_regions, 1)))

process_lab_report(image) == or_regions(image, parse_text(image.full_text))

\* lab_test_parser = LabTestParser(): the attributes set by __init__
LabTestParser ==
    [patterns |-> patterns, table_header_patterns |-> table_header_patterns,
     value_header_patterns |-> value_header_patterns,
     range_header_patterns |-> range_header_patterns]

\* text_extractor = TextExtractor()
TextExtractor == [lang |-> "eng", config |-> "--psm 6"]

\* the list all_lab_tests of call i, were it a single list of the module
own_list_as_module_level(i) == 1

\* all_lab_tests = [] binds a new list in the frame of the call: call i reads
\* and writes list i only
own_list(i) == i

Init ==
    /\ rng = RngIdle /\ fmt = FmtIdle /\ prs = PrsIdle /\ ExtIdle /\ PipeIdle

Upload ==
    /\ pc = "idle"
    /\ req' \in Requests
    /\ pc' = "validate"
    /\ UNCHANGED <<rng, fmt, prs, ext_vars, lab_tests, all_lab_tests, regions, calls, exc, result, resp>>

\* if not file.content_type.startswith('image/'): raise HTTPException(400, ...)
Validate ==
    /\ pc = "validate"
    /\ IF IsPrefixAt(req.content_type, 1, ImagePrefix)
       THEN pc' = "decode" /\ exc' = exc
       ELSE pc' = "except" /\ exc' = HTTPException(400, "File must be an image")
    /\ UNCHANGED <<rng, fmt, prs, ext_vars, req, lab_tests, all_lab_tests, regions, calls, result, resp>>

\* image = cv2.imdecode(...); if image is None: raise HTTPException(400, ...)
Decode ==
    /\ pc = "decode"
    /\ IF req.decodes
       THEN pc' = "deskew" /\ exc' = exc
       ELSE pc' = "except" /\ exc' = HTTPException(400, "Invalid image file")
    /\ UNCHANGED <<rng, fmt, prs, ext_vars, req, lab_tests, all_lab_tests, regions, calls, result, resp>>

\* deskewed = deskew_image(image); processed = preprocess_image(deskewed).
\* On a blank image the binarised image has no foreground pixel and
\* cv2.minAreaRect is handed an empty point set: the build of OpenCV decides
\* whether that raises.
Deskew ==
    /\ pc = "deskew"
    /\ calls' = Append(calls, "deskew_image")
    /\ \/ pc' = "ocr_full" /\ exc' = exc
       \/ req.blank /\ pc' = "except" /\ exc' = Cv2Error
    /\ UNCHANGED <<rng, fmt, prs, ext_vars, req, lab_tests, all_lab_tests, regions, result, resp>>

\* full_text = text_extractor.extract_text(processed)
\* lab_tests = lab_test_parser.parse_text(full_text)
OcrFull ==
    /\ pc = "ocr_full"
    /\ calls' = Append(calls, "extract_text")
    /\ \/ pc' = "except" /\ exc' = TesseractError /\ lab_tests' = lab_tests
       \/ \E full_text \in OcrTexts :
              pc' = "direct" /\ exc' = exc /\ lab_tests' = parse_text(full_text)
    /\ UNCHANGED <<rng, fmt, prs, ext_vars, req, all_lab_tests, regions, result, resp>>

\* Direct, were the regions tried whatever the direct extraction returned
Direct_as_falling_through ==
    /\ pc = "direct"
    /\ pc' = "detect"
    /\ UNCHANGED <<rng, fmt, prs, ext_vars, req, lab_tests, all_lab_tests, regions, calls, exc,
                   result, resp>>

\* if lab_tests: return lab_tests
Direct ==
    /\ pc = "direct"
    /\ IF lab_tests # <<>>
       THEN pc' = "respond" /\ result' = lab_tests
       ELSE pc' = "detect" /\ result' = result
    /\ UNCHANGED <<rng, fmt, prs, ext_vars, req, lab_tests, all_lab_tests, regions, calls, exc, resp>>

\* table_regions = detect_table_regions(deskewed); all_lab_tests = []
DetectRegions ==
    /\ pc = "detect"
    /\ calls' = Append(calls, "detect_table_regions")
    /\ regions' \in RegionCounts
    /\ all_lab_tests' = <<>>
    /\ pc' = "regions"
    /\ UNCHANGED <<rng, fmt, prs, ext_vars, req, lab_tests, exc, result, resp>>

\* one turn of the loop, the try block: extract_table_data, parse_table_data
RegionGrid ==
    /\ pc = "regions" /\ regions > 0
    /\ calls' = Append(calls, "extract_table_data")
    /\ \/ pc' = "region_text" /\ UNCHANGED <<all_lab_tests, regions>>
       \/ \E table_data \in OcrGrids :
              /\ all_lab_tests' = all_lab_tests \o parse_table_data(table_data)
              /\ regions' = regions - 1
              /\ pc' = pc
    /\ UNCHANGED <<rng, fmt, prs, ext_vars, req, lab_tests, exc, result, resp>>

\* the except block of the loop: extract_text, parse_text, outside any try
RegionText ==
    /\ pc = "region_text"
    /\ calls' = Append(calls, "extract_text")
    /\ \/ pc' = "except" /\ exc' = TesseractError /\ UNCHANGED <<all_lab_tests, regions>>
       \/ \E region_text \in OcrTexts :
              /\ all_lab_tests' = all_lab_tests \o parse_text(region_text)
              /\ regions' = regions - 1
              /\ pc' = "regions" /\ exc' = exc
    /\ UNCHANGED <<rng, fmt, prs, ext_vars, req, lab_tests, result, resp>>

\* if not all_lab_tests: try extract_structured_data, parse_text; failure is logged
Structured ==
    /\ pc = "regions" /\ regions = 0
    /\ IF all_lab_tests = <<>>
       THEN /\ calls' = Append(calls, "extract_structured_data")
            /\ \/ all_lab_tests' = all_lab_tests
               \/ \E structured_text \in OcrTexts :
                      all_lab_tests' = parse_text(structured_text)
       ELSE UNCHANGED <<calls, all_lab_tests>>
    /\ pc' = "dedup"
    /\ UNCHANGED <<rng, fmt, prs, ext_vars, req, lab_tests, regions, exc, result, resp>>

\* Remove duplicates based on test name; return unique_lab_tests
Dedup ==
    /\ pc = "dedup"
    /\ result' = unique(all_lab_tests)
    /\ pc' = "respond"
    /\ UNCHANGED <<rng, fmt, prs, ext_vars, req, lab_tests, all_lab_tests, regions, calls, exc, resp>>

\* return JSONResponse(content={"is_success": True, "lab_tests": lab_tests})
Respond ==
    /\ pc = "respond"
    /\ resp' = [status_code |-> 200,
                content |-> [is_success |-> TRUE, lab_tests |-> result]]
    /\ pc' = "done"
    /\ UNCHANGED <<rng, fmt, prs, ext_vars, req, lab_tests, all_lab_tests, regions, calls, exc, result>>

\* except Exception as e: return JSONResponse(status_code=500, ...);
\* "error" holds str(e), kept here as the exception itself
Except ==
    /\ pc = "except"
    /\ resp' = [status_code |-> 500,
                content |-> [is_success |-> FALSE, error |-> exc]]
    /\ pc' = "done"
    /\ UNCHANGED <<rng, fmt, prs, ext_vars, req, lab_tests, all_lab_tests, regions, calls, exc, result>>

Next ==
    \/ Upload \/ Validate \/ Decode \/ Deskew \/ OcrFull \/ Direct \/ DetectRegions
    \/ RegionGrid \/ RegionText \/ Structured \/ Dedup \/ Respond \/ Except

Spec == Init /\ [][Next]_vars

-----------------------------------------------------------------------------
(* TextExtractor._group_by_lines, box by box *)

LinesInit ==
    /\ grp \in {[GrpIdle EXCEPT !.pc = "start", !.text_boxes = bs] : bs \in BoxLists}
    /\ rng = RngIdle /\ fmt = FmtIdle /\ prs = PrsIdle
    /\ dcl = DclIdle /\ tbl = TblIdle /\ det = DetIdle /\ two = TwoIdle /\ ptd = PtdIdle /\ PipeIdle

lines_unchanged == UNCHANGED <<rng, fmt, prs, dcl, tbl, det, two, ptd, pipe_vars>>

\* if not text_boxes: return []
LinesEmpty ==
    /\ grp.pc = "start" /\ grp.text_boxes = <<>>
    /\ grp' = [grp EXCEPT !.pc = "done", !.result = <<>>]
    /\ lines_unchanged

\* the sort by y and the first line, seeded by the first sorted box
LinesSort ==
    /\ grp.pc = "start" /\ grp.text_boxes # <<>>
    /\ grp' = [grp EXCEPT !.sorted_boxes = sorted(grp.text_boxes, "y"),
                          !.current_line = <<sorted(grp.text_boxes, "y")[1]>>,
                          !.line_height = sorted(grp.text_boxes, "y")[1].height,
                          !.i = 2, !.pc = "loop"]
    /\ lines_unchanged

\* the box is on the current line
LinesJoin ==
    /\ grp.pc = "loop" /\ grp.i <= Len(grp.sorted_boxes)
    /\ on_current_line(grp.sorted_boxes[grp.i], grp.current_line, grp.line_height)
    /\ grp' = [grp EXCEPT !.current_line = Append(@, grp.sorted_boxes[grp.i]), !.i = @ + 1]
    /\ lines_unchanged

\* the box is not: the current line is closed and the box starts the next one
LinesClose ==
    /\ grp.pc = "loop" /\ grp.i <= Len(grp.sorted_boxes)
    /\ ~on_current_line(grp.sorted_boxes[grp.i], grp.current_line, grp.line_height)
    /\ grp' = [grp EXCEPT !.lines = Append(@, sorted(grp.current_line, "x")),
                          !.current_line = <<grp.sorted_boxes[grp.i]>>,
                          !.line_height = grp.sorted_boxes[grp.i].height,
                          !.i = @ + 1]
    /\ lines_unchanged

\* the last line, and the return
LinesLast ==
    /\ grp.pc = "loop" /\ grp.i > Len(grp.sorted_boxes)
    /\ grp' = [grp EXCEPT !.lines = Append(@, sorted(grp.current_line, "x")),
                          !.result = Append(grp.lines, sorted(grp.current_line, "x")),
                          !.current_line = <<>>,
                          !.pc = "done"]
    /\ lines_unchanged

LinesNext ==
    \/ LinesEmpty
    \/ LinesSort
    \/ LinesJoin
    \/ LinesClose
    \/ LinesLast

SpecLines == LinesInit /\ [][LinesNext]_vars

-----------------------------------------------------------------------------
(* TextExtractor._detect_columns, step by step *)

ColumnsInit ==
    /\ dcl \in {[DclIdle EXCEPT !.pc = "start", !.lines = ls] : ls \in ColumnLines}
    /\ rng = RngIdle /\ fmt = FmtIdle /\ prs = PrsIdle
    /\ grp = GrpIdle /\ tbl = TblIdle /\ det = DetIdle /\ two = TwoIdle /\ ptd = PtdIdle /\ PipeIdle

columns_unchanged == UNCHANGED <<rng, fmt, prs, grp, tbl, det, two, ptd, pipe_vars>>

\* if not lines: return []
ColumnsEmpty ==
    /\ dcl.pc = "start" /\ dcl.lines = <<>>
    /\ dcl' = [dcl EXCEPT !.pc = "done", !.columns = <<>>]
    /\ columns_unchanged

ColumnsHistogram ==
    /\ dcl.pc = "start" /\ dcl.lines # <<>>
    /\ dcl' = [dcl EXCEPT !.hist = histogram(x_starts(dcl.lines), hist_range(dcl.lines)),
                          !.i = 1, !.pc = "peaks"]
    /\ columns_unchanged

\* one turn of the loop over the inner bins
ColumnsPeak ==
    /\ dcl.pc = "peaks" /\ dcl.i < hist_bins - 1
    /\ dcl' = [dcl EXCEPT !.peak_indices = IF is_peak(dcl.hist, dcl.i) THEN Append(@, dcl.i)
                                           ELSE @,
                          !.i = @ + 1]
    /\ columns_unchanged

ColumnsLeftmost ==
    /\ dcl.pc = "peaks" /\ dcl.i = hist_bins - 1
    /\ dcl' = [dcl EXCEPT !.column_starts =
                              with_leftmost(peak_starts(hist_range(dcl.lines), dcl.peak_indices),
                                            min_x_starts(dcl.lines)),
                          !.pc = "bounds"]
    /\ columns_unchanged

ColumnsBounds ==
    /\ dcl.pc = "bounds"
    /\ dcl' = [dcl EXCEPT !.columns = column_bounds(dcl.column_starts, max_x_ends(dcl.lines)),
                          !.pc = "done"]
    /\ columns_unchanged

ColumnsNext ==
    \/ ColumnsEmpty
    \/ ColumnsHistogram
    \/ ColumnsPeak
    \/ ColumnsLeftmost
    \/ ColumnsBounds

SpecColumns == ColumnsInit /\ [][ColumnsNext]_vars

-----------------------------------------------------------------------------
(* TextExtractor.extract_table_data, line by line *)

TableInit ==
    /\ tbl \in {[TblIdle EXCEPT !.pc = "start", !.text_boxes = bs] : bs \in TableBoxLists}
    /\ rng = RngIdle /\ fmt = FmtIdle /\ prs = PrsIdle
    /\ grp = GrpIdle /\ dcl = DclIdle /\ det = DetIdle /\ two = TwoIdle /\ ptd = PtdIdle /\ PipeIdle

table_unchanged == UNCHANGED <<rng, fmt, prs, grp, dcl, det, two, ptd, pipe_vars>>

\* the structured lines, their columns and the first, empty row
TableColumns ==
    /\ tbl.pc = "start"
    /\ tbl' = [tbl EXCEPT !.lines = extract_structured_data(tbl.text_boxes),
                          !.columns = _detect_columns(extract_structured_data(tbl.text_boxes)),
                          !.current_row =
                              empty_row(_detect_columns(extract_structured_data(tbl.text_boxes))),
                          !.j = 1, !.pc = "loop"]
    /\ table_unchanged

\* the line belongs to a column: its text goes into the cell of the current row
TableAssign ==
    /\ tbl.pc = "loop" /\ tbl.j <= Len(tbl.lines)
    /\ column_of(tbl.lines[tbl.j], tbl.columns, 1) > 0
    /\ tbl' = [tbl EXCEPT !.current_row =
                              set_cell(@, column_of(tbl.lines[tbl.j], tbl.columns, 1),
                                       tbl.lines[tbl.j]),
                          !.assigned = @ \cup {tbl.j},
                          !.j = @ + 1]
    /\ table_unchanged

\* the line belongs to no column and the current row holds a cell: a new row
TableFlush ==
    /\ tbl.pc = "loop" /\ tbl.j <= Len(tbl.lines)
    /\ column_of(tbl.lines[tbl.j], tbl.columns, 1) = 0
    /\ any_cell(tbl.current_row)
    /\ tbl' = [tbl EXCEPT !.table_data = Append(@, tbl.current_row),
                          !.current_row = empty_row(tbl.columns),
                          !.j = @ + 1]
    /\ table_unchanged

\* the line belongs to no column and the current row is empty
TableSkip ==
    /\ tbl.pc = "loop" /\ tbl.j <= Len(tbl.lines)
    /\ column_of(tbl.lines[tbl.j], tbl.columns, 1) = 0
    /\ ~any_cell(tbl.current_row)
    /\ tbl' = [tbl EXCEPT !.j = @ + 1]
    /\ table_unchanged

\* the last row, and the return
TableLast ==
    /\ tbl.pc = "loop" /\ tbl.j > Len(tbl.lines)
    /\ tbl' = [tbl EXCEPT !.result = IF any_cell(tbl.current_row)
                                     THEN Append(tbl.table_data, tbl.current_row)
                                     ELSE tbl.table_data,
                          !.pc = "done"]
    /\ table_unchanged

TableNext ==
    \/ TableColumns
    \/ TableAssign
    \/ TableFlush
    \/ TableSkip
    \/ TableLast

SpecTable == TableInit /\ [][TableNext]_vars

-----------------------------------------------------------------------------
(* detect_table_regions, contour by contour *)

RegionsInit ==
    /\ det \in {[DetIdle EXCEPT !.pc = "loop", !.contours = cs, !.i = 1] : cs \in ContourLists}
    /\ rng = RngIdle /\ fmt = FmtIdle /\ prs = PrsIdle
    /\ grp = GrpIdle /\ dcl = DclIdle /\ tbl = TblIdle /\ two = TwoIdle /\ ptd = PtdIdle /\ PipeIdle

regions_unchanged == UNCHANGED <<rng, fmt, prs, grp, dcl, tbl, two, ptd, pipe_vars>>

\* the contour passes both tests: its bounding rectangle is a table region
RegionsKeep ==
    /\ det.pc = "loop" /\ det.i <= Len(det.contours)
    /\ large_enough(det.contours[det.i]) /\ table_shaped(det.contours[det.i])
    /\ det' = [det EXCEPT !.table_regions = Append(@, boundingRect(det.contours[det.i])),
                          !.i = @ + 1]
    /\ regions_unchanged

RegionsDrop ==
    /\ det.pc = "loop" /\ det.i <= Len(det.contours)
    /\ ~(large_enough(det.contours[det.i]) /\ table_shaped(det.contours[det.i]))
    /\ det' = [det EXCEPT !.i = @ + 1]
    /\ regions_unchanged

RegionsReturn ==
    /\ det.pc = "loop" /\ det.i > Len(det.contours)
    /\ det' = [det EXCEPT !.result = det.table_regions, !.pc = "done"]
    /\ regions_unchanged

RegionsNext ==
    \/ RegionsKeep
    \/ RegionsDrop
    \/ RegionsReturn

SpecRegions == RegionsInit /\ [][RegionsNext]_vars

-----------------------------------------------------------------------------
(* Several invocations of process_lab_report, interleaved step by step.     *)
(* Each has its frame of locals; lab_test_parser and text_extractor are the *)
(* objects of the module, shared by all.                                    *)

Invocations == 1..MaxInvocations

Frame(image) == [pc |-> "ocr", image |-> image, lab_tests |-> <<>>, r |-> 0, result |-> <<>>]

TwoInit ==
    /\ two \in {[frames |-> [i \in Invocations |-> Frame(images[i])],
                 lists |-> [i \in Invocations |-> <<>>],
                 lab_test_parser |-> LabTestParser,
                 text_extractor |-> TextExtractor] : images \in [Invocations -> ImageBank]}
    /\ rng = RngIdle /\ fmt = FmtIdle /\ prs = PrsIdle
    /\ grp = GrpIdle /\ dcl = DclIdle /\ tbl = TblIdle /\ det = DetIdle /\ ptd = PtdIdle /\ PipeIdle

two_unchanged == UNCHANGED <<rng, fmt, prs, grp, dcl, tbl, det, ptd, pipe_vars>>

\* lines 107-111: the text of the full image and its records
TwoOcrFull(i) ==
    /\ two.frames[i].pc = "ocr"
    /\ two' = [two EXCEPT !.frames[i].lab_tests = parse_text(two.frames[i].image.full_text),
                          !.frames[i].pc = "direct"]
    /\ two_unchanged

\* lines 113-121: return the records, or detect the regions and start the list
TwoDirect(i) ==
    /\ two.frames[i].pc = "direct"
    /\ two' = IF two.frames[i].lab_tests # <<>>
              THEN [two EXCEPT !.frames[i].result = two.frames[i].lab_tests,
                               !.frames[i].pc = "done"]
              ELSE [two EXCEPT !.lists[own_list(i)] = <<>>,
                               !.frames[i].r = 1,
                               !.frames[i].pc = "regions"]
    /\ two_unchanged

\* lines 123-144: one region
TwoRegion(i) ==
    /\ two.frames[i].pc = "regions"
    /\ two.frames[i].r <= Len(two.frames[i].image.table_regions)
    /\ two' = [two EXCEPT !.lists[own_list(i)] =
                              @ \o region_lab_tests(
                                       two.frames[i].image.table_regions[two.frames[i].r]),
                          !.frames[i].r = @ + 1]
    /\ two_unchanged

\* lines 146-158: the structured lines when the regions gave nothing
TwoStructured(i) ==
    /\ two.frames[i].pc = "regions"
    /\ two.frames[i].r > Len(two.frames[i].image.table_regions)
    /\ two' = [two EXCEPT !.lists[own_list(i)] = or_structured(two.frames[i].image, @),
                          !.frames[i].pc = "dedup"]
    /\ two_unchanged

\* lines 160-170
TwoDedup(i) ==
    /\ two.frames[i].pc = "dedup"
    /\ two' = [two EXCEPT !.frames[i].result = unique(two.lists[own_list(i)]),
                          !.frames[i].pc = "done"]
    /\ two_unchanged

TwoNext ==
    \E i \in Invocations :
        \/ TwoOcrFull(i)
        \/ TwoDirect(i)
        \/ TwoRegion(i)
        \/ TwoStructured(i)
        \/ TwoDedup(i)

SpecTwo == TwoInit /\ [][TwoNext]_vars

-----------------------------------------------------------------------------
(* SpecRows: one call of LabTestParser.parse_table_data, row by row *)

\* the 0-based position of row[c] for a Python index c (a negative c counts from the end)
subscript(row, c) == IF c < 0 THEN Len(row) + c ELSE c

\* the row the loop is at: table_data[i]
row_at == ptd.table_data[ptd.i + 1]

\* not table_data or not table_data[0]
no_rows(table_data) == IF table_data = <<>> THEN TRUE ELSE table_data[1] = <<>>

\* len(row) <= max(col for col in [test_name_col, value_col, range_col] if col >= 0)
too_short(row, cols) == Len(row) <= max_column(cols)

RowsInit ==
    /\ \E table_data \in Tables :
           ptd = [pc |-> "start", table_data |-> table_data, cols |-> NoColumns, i |-> 0,
                  lab_tests |-> <<>>, emitted |-> <<>>, result |-> <<>>]
    /\ rng = RngIdle /\ fmt = FmtIdle /\ prs = PrsIdle
    /\ grp = GrpIdle /\ dcl = DclIdle /\ tbl = TblIdle /\ det = DetIdle /\ two = TwoIdle /\ PipeIdle

rows_unchanged == UNCHANGED <<rng, fmt, prs, grp, dcl, tbl, det, two, pipe_vars>>

\* if not table_data or not table_data[0]: return lab_tests
RowsEmpty ==
    /\ ptd.pc = "start"
    /\ no_rows(ptd.table_data)
    /\ ptd' = [ptd EXCEPT !.pc = "done", !.result = <<>>]
    /\ rows_unchanged

\* the first row names a test name column or a value column: the rows start after it
RowsHeader ==
    /\ ptd.pc = "start"
    /\ ~no_rows(ptd.table_data)
    /\ infer_columns(ptd.table_data).header_row = 0
    /\ ptd' = [ptd EXCEPT !.pc = "rows", !.cols = infer_columns(ptd.table_data), !.i = 1]
    /\ rows_unchanged

\* neither was found: columns 0 and 1 (and 2), header_row = -1, the rows start at the first
RowsNoHeader ==
    /\ ptd.pc = "start"
    /\ ~no_rows(ptd.table_data)
    /\ infer_columns(ptd.table_data).header_row = -1
    /\ ptd' = [ptd EXCEPT !.pc = "rows", !.cols = infer_columns(ptd.table_data), !.i = 0]
    /\ rows_unchanged

\* the row has too few cells: continue
RowsShort ==
    /\ ptd.pc = "rows" /\ ptd.i < Len(ptd.table_data)
    /\ too_short(row_at, ptd.cols)
    /\ ptd' = [ptd EXCEPT !.i = @ + 1]
    /\ rows_unchanged

\* test_name and value_str are both non-empty: the record is appended
RowsAppend ==
    /\ ptd.pc = "rows" /\ ptd.i < Len(ptd.table_data)
    /\ ~too_short(row_at, ptd.cols)
    /\ strip(cell_at(row_at, ptd.cols.test_name)) # <<>>
    /\ strip(cell_at(row_at, ptd.cols.value)) # <<>>
    /\ ptd' = [ptd EXCEPT !.i = @ + 1,
                          !.lab_tests = @ \o table_row(row_at, ptd.cols),
                          !.emitted = Append(@, [row |-> ptd.i,
                                                 name_cell |-> subscript(row_at, ptd.cols.test_name),
                                                 value_cell |-> subscript(row_at, ptd.cols.value)])]
    /\ rows_unchanged

\* test_name or value_str is empty: nothing is appended
RowsBlank ==
    /\ ptd.pc = "rows" /\ ptd.i < Len(ptd.table_data)
    /\ ~too_short(row_at, ptd.cols)
    /\ \/ strip(cell_at(row_at, ptd.cols.test_name)) = <<>>
       \/ strip(cell_at(row_at, ptd.cols.value)) = <<>>
    /\ ptd' = [ptd EXCEPT !.i = @ + 1]
    /\ rows_unchanged

\* return lab_tests
RowsReturn ==
    /\ ptd.pc = "rows" /\ ptd.i >= Len(ptd.table_data)
    /\ ptd' = [ptd EXCEPT !.pc = "done", !.result = ptd.lab_tests]
    /\ rows_unchanged

RowsNext ==
    \/ RowsEmpty
    \/ RowsHeader
    \/ RowsNoHeader
    \/ RowsShort
    \/ RowsAppend
    \/ RowsBlank
    \/ RowsReturn

SpecRows == RowsInit /\ [][RowsNext]_vars

-----------------------------------------------------------------------------
(* Properties of format_lab_test (SpecFormat) *)

\* C6: a record whose test_value is not numeric (the raw value string failed
\* float parsing and was kept as a string) has lab_test_out_of_range = FALSE,
\* whatever the reference range is.
C6_NonNumericNotFlagged ==
    (fmt.pc = "done" /\ ~float(fmt.value_str).ok)
        => /\ fmt.result.test_value = StrValue(fmt.value_str)
           /\ fmt.result.lab_test_out_of_range = FALSE

\* a string value under a range whose lower bound a number could fall below
C6_Witness ==
    /\ fmt.pc = "done" /\ ~fmt.result.test_value.isnum /\ fmt.value_str # <<>>
    /\ Gt(parse_reference_range(fmt.reference_range).min, Zero)
    /\ fmt.result.lab_test_out_of_range = FALSE

\* the rule as the specification states it: only a finite bound can be crossed
finite_rule(value, r) ==
    (IsFinite(r.min) /\ Lt(value, r.min)) \/ (IsFinite(r.max) /\ Gt(value, r.max))

\* C7: for a numeric value v and a range parsed to (min, max), out_of_range is
\* true iff (min is finite and v < min) or (max is finite and v > max); an
\* infinite bound never triggers the flag.
C7_FiniteBoundsOnly ==
    (fmt.pc = "done" /\ fmt.value.isnum)
        => (fmt.result.lab_test_out_of_range
                <=> finite_rule(fmt.value.num, parse_reference_range(fmt.reference_range)))

\* C10 as stated: under the range "N/A" a numeric value is out of range
\* exactly when it differs from 0.
C10_DiffersFromZero ==
    (fmt.pc = "done" /\ fmt.reference_range = NA /\ fmt.value.isnum)
        => (fmt.result.lab_test_out_of_range <=> Ne(fmt.value.num, Zero))

\* C10: under the range "N/A" the range is (0, 0) and a numeric value is out
\* of range exactly when it is less than 0 or greater than 0: not when it is
\* 0, and not when it is NaN (which differs from 0 but compares with nothing).
C10_BelowOrAboveZero ==
    (fmt.pc = "done" /\ fmt.reference_range = NA /\ fmt.value.isnum)
        => /\ parse_reference_range(fmt.reference_range) = [ok |-> TRUE, min |-> Zero, max |-> Zero]
           /\ fmt.result.lab_test_out_of_range
                  <=> (Lt(fmt.value.num, Zero) \/ Gt(fmt.value.num, Zero))

\* float("nan") under "N/A": numeric, different from 0, not flagged
C10_Witness ==
    /\ fmt.pc = "done" /\ fmt.reference_range = NA
    /\ fmt.result.test_value = NumValue(NaN)
    /\ fmt.result.lab_test_out_of_range = FALSE

-----------------------------------------------------------------------------
(* Properties of parse_reference_range (SpecRange) *)

Pair(min, max) == [ok |-> TRUE, min |-> min, max |-> max]

\* the positions of t in s
Positions(s, t) == {i \in 1..Len(s) : s[i] = t}

\* s reads "A-B": one "-", no "<", no ">", a float literal on either side
IsInterval(s) ==
    /\ Cardinality(Positions(s, "-")) = 1
    /\ Positions(s, "<") = {} /\ Positions(s, ">") = {}
    /\ \A p \in Positions(s, "-") :
           float(SubSeq(s, 1, p - 1)).ok /\ float(SubSeq(s, p + 1, Len(s))).ok

IntervalOf(s) ==
    LET p == CHOOSE q \in Positions(s, "-") : TRUE
    IN Pair(float(SubSeq(s, 1, p - 1)).v, float(SubSeq(s, p + 1, Len(s))).v)

\* the sign at i introduces the digit at j: between them only blanks, and at most one "="
Introduces(s, sign, i, j) ==
    /\ s[i] = sign /\ i < j /\ s[j] \in Digit
    /\ \E e \in i..(j - 1) :
           /\ e = i \/ s[e] = "="
           /\ \A k \in (i + 1)..(j - 1) : k # e => s[k] \in Space

\* the positions of a sign that introduces a numeral
SignsOf(s, sign) == {i \in 1..Len(s) : \E j \in 1..Len(s) : Introduces(s, sign, i, j)}

\* the last position of the longest run of digits that starts at j (j - 1: no digit at j)
DigitsEnd(s, j) ==
    CHOOSE e \in (j - 1)..Len(s) :
        /\ \A k \in j..e : s[k] \in Digit
        /\ e < Len(s) => s[e + 1] \notin Digit

\* the numeral that starts at j: digits, then "." and the digits after it, if any
NumeralEnd(s, j) ==
    LET e == DigitsEnd(s, j)
    IN IF e < Len(s) /\ s[e + 1] = "." THEN DigitsEnd(s, e + 2) ELSE e

\* the number introduced by the first sign of s that introduces one
BoundOf(s, sign) ==
    LET i == CHOOSE x \in SignsOf(s, sign) : \A y \in SignsOf(s, sign) : x <= y
        j == CHOOSE x \in 1..Len(s) : Introduces(s, sign, i, x)
    IN NumeralVal(SubSeq(s, j, NumeralEnd(s, j)))

\* C9: parse_reference_range never raises and, on the stripped string s: if s
\* has exactly one "-", no "<" and no ">", and float literals on both sides,
\* the result is (A, B), in that order even when A > B; otherwise, if some "<"
\* of s is followed (after blanks, an optional "=", blanks) by a digit, the
\* result is (-infinity, X) for the unsigned numeral X after the first such
\* "<", wherever it stands in s and whatever follows it; otherwise the same
\* with ">" gives (X, +infinity); otherwise the result is (0, 0).
C9_RangeCases ==
    rng.pc = "done" =>
        LET s == strip(rng.range_str)
        IN rng.result =
               IF IsInterval(s) THEN IntervalOf(s)
               ELSE IF SignsOf(s, "<") # {} THEN Pair(NegInf, BoundOf(s, "<"))
               ELSE IF SignsOf(s, ">") # {} THEN Pair(BoundOf(s, ">"), PosInf)
               ELSE Pair(Zero, Zero)

\* a "<" after other text, with a unit behind the number
C9_Witness ==
    /\ rng.pc = "done" /\ Head(rng.s) # "<" /\ rng.s[Len(rng.s)] \in Word
    /\ rng.result.min = NegInf /\ IsFinite(rng.result.max)

\* s is the sign, an optional "=", and a number
IsBound(s, sign) ==
    /\ s # <<>> /\ Head(s) = sign
    /\ \/ float(Tail(s)).ok /\ Head(Tail(s)) \notin {"-", "+"}
       \/ Len(s) > 1 /\ s[2] = "=" /\ float(Tail(Tail(s))).ok /\ Head(Tail(Tail(s))) \notin {"-", "+"}

BoundValue(s) == IF s[2] = "=" THEN float(Tail(Tail(s))).v ELSE float(Tail(s)).v

\* s is "A-B" for numbers A <= B
IsOrderedInterval(s) ==
    \E p \in Positions(s, "-") :
        /\ Positions(s, "<") = {} /\ Positions(s, ">") = {}
        /\ float(SubSeq(s, 1, p - 1)).ok /\ float(SubSeq(s, p + 1, Len(s))).ok
        /\ ~Gt(float(SubSeq(s, 1, p - 1)).v, float(SubSeq(s, p + 1, Len(s))).v)

OrderedIntervalOf(s) ==
    LET p == CHOOSE q \in Positions(s, "-") :
                 float(SubSeq(s, 1, q - 1)).ok /\ float(SubSeq(s, q + 1, Len(s))).ok
    IN Pair(float(SubSeq(s, 1, p - 1)).v, float(SubSeq(s, p + 1, Len(s))).v)

\* C9 as stated: "A-B" with A <= B gives (A, B), "<X" or "<=X" gives
\* (-infinity, X), ">X" or ">=X" gives (X, +infinity), every other string (0, 0).
C9_EveryOtherStringIsDefault ==
    rng.pc = "done" =>
        LET s == strip(rng.range_str)
        IN rng.result =
               IF IsOrderedInterval(s) THEN OrderedIntervalOf(s)
               ELSE IF IsBound(s, "<") THEN Pair(NegInf, BoundValue(s))
               ELSE IF IsBound(s, ">") THEN Pair(BoundValue(s), PosInf)
               ELSE Pair(Zero, Zero)

-----------------------------------------------------------------------------
(* Properties of LabTestParser.parse_text (SpecParse) *)

\* C2: parse_text returns an empty list only when none of its strategies
\* yields a record: also for a text judged tabular, the four templates and the
\* aggressive fallback have been tried before [] is returned.
C2_EmptyOnlyWhenNothingMatches ==
    (prs.pc = "done" /\ prs.result = <<>>)
        => /\ all_pattern_records(1, prs.text) = <<>>
           /\ _parse_aggressive(prs.text) = <<>>

names_of(tests) == [i \in 1..Len(tests) |-> tests[i].test_name]
flags_of(tests) == [i \in 1..Len(tests) |-> tests[i].lab_test_out_of_range]

\* C8 as stated: Scenario 1 yields Hemoglobin (not out of range) and WBC (out of range).
C8_WBCOutOfRange ==
    (prs.pc = "done" /\ prs.text = Scenario1)
        => /\ names_of(prs.result) = <<<<"Hemoglobin">>, <<"WBC">>>>
           /\ flags_of(prs.result) = <<FALSE, TRUE>>

\* C8: for Scenario 1 parse_text yields exactly two records, Hemoglobin and
\* WBC in this order, with values 14.2 and 11000, and neither is out of range:
\* 11000 equals the upper bound 11000, and a value equal to a bound is in range.
C8_Scenario1 ==
    (prs.pc = "done" /\ prs.text = Scenario1)
        => /\ names_of(prs.result) = <<<<"Hemoglobin">>, <<"WBC">>>>
           /\ flags_of(prs.result) = <<FALSE, FALSE>>
           /\ prs.result[1].test_value = NumValue(Fin(142, 1))
           /\ prs.result[2].test_value = NumValue(Fin(11000, 0))
           /\ prs.result[2].bio_reference_range
                  = <<"4", "0", "0", "0", "-", "1", "1", "0", "0", "0">>

\* Scenario 1 has gone through the templates and come back
C8_Witness ==
    prs.pc = "done" /\ prs.text = Scenario1 /\ prs.via = "patterns" /\ Len(prs.result) = 2

\* C12: for Scenario 2 ("Test Name | Result | Reference Range\nGlucose | 250 |
\* 70-110") parse_text judges the text tabular, takes columns 0, 1, 2 of the
\* header line as name, value and range, and returns exactly one record:
\* Glucose, 250.0, raw range "70-110", out of range.
C12_Scenario2 ==
    (prs.pc = "done" /\ prs.text = Scenario2)
        => /\ prs.via = "tabular"
           /\ try_delimiters(split(prs.text, "\n"), 1, <<"|">>, NoColumns).hc
                  = [test_name |-> 0, value |-> 1, range |-> 2]
           /\ Len(prs.result) = 1
           /\ prs.result[1].test_name = <<"Glucose">>
           /\ prs.result[1].test_value = NumValue(Fin(250, 0))
           /\ prs.result[1].bio_reference_range = <<"7", "0", "-", "1", "1", "0">>
           /\ prs.result[1].lab_test_out_of_range = TRUE

\* Scenario 2 has been parsed as a table
C12_Witness ==
    prs.pc = "done" /\ prs.text = Scenario2 /\ prs.via = "tabular" /\ prs.result # <<>>

\* one record per match of template j, for the templates 1..k in this order
RECURSIVE MatchRecords(_, _)
MatchRecords(k, text) ==
    IF k = 0 THEN <<>>
    ELSE MatchRecords(k - 1, text)
             \o [i \in 1..Len(finditer(k, text, 1)) |-> match_record(finditer(k, text, 1)[i])]

\* C19: for a text that is not tabular all four templates are tried over the
\* full text in their fixed order, also after an earlier one has matched;
\* every match of every template gives one record; the concatenation over the
\* four templates is returned when it is not empty, and the aggressive
\* fallback runs only when it is empty.
C19_AllTemplates ==
    /\ (prs.pc = "done" /\ ~_is_tabular_format(prs.text))
           => prs.via \in {"patterns", "aggressive"}
    /\ prs.pc = "patterns" => prs.lab_tests = MatchRecords(prs.k - 1, prs.text)
    /\ prs.via \in {"patterns", "aggressive"}
           => /\ prs.k = Len(patterns) + 1
              /\ prs.lab_tests = MatchRecords(Len(patterns), prs.text)
    /\ prs.via = "patterns" => prs.lab_tests # <<>> /\ prs.result = prs.lab_tests
    /\ prs.pc = "aggressive" => prs.lab_tests = <<>>
    /\ prs.via = "aggressive"
           => prs.lab_tests = <<>> /\ prs.result = _parse_aggressive(prs.text)

\* a text in which two different templates match has been returned
C19_Witness ==
    /\ prs.pc = "done" /\ prs.via = "patterns"
    /\ \E j, k \in 1..Len(patterns) :
           j < k /\ finditer(j, prs.text, 1) # <<>> /\ finditer(k, prs.text, 1) # <<>>

-----------------------------------------------------------------------------
(* Properties of a request (Spec) *)

NoDuplicateNames(tests) ==
    \A i, j \in 1..Len(tests) : i # j => tests[i].test_name # tests[j].test_name

\* C1: the record list process_lab_report returns never holds two records
\* with the same cleaned test_name, whichever path produced the records.
C1_UniqueNamesReturned ==
    pc = "respond" => NoDuplicateNames(result)

\* C3: an upload whose content type does not start with "image/" is answered
\* with status 400 and a detail field "File must be an image".
C3_NotAnImageIs400 ==
    (pc = "done" /\ ~IsPrefixAt(req.content_type, 1, ImagePrefix))
        => /\ resp.status_code = 400
           /\ "detail" \in DOMAIN resp.content
           /\ resp.content.detail = "File must be an image"

Called(name) == \E n \in 1..Len(calls) : calls[n] = name

\* C5: a failure of the OCR collaborator makes the request fail only when
\* every fallback path is exhausted (no region is left and the structured
\* fallback has been tried) and no record has been extracted yet.
C5_FailsOnlyWhenExhausted ==
    (pc = "done" /\ exc = TesseractError)
        => \/ resp.status_code = 200
           \/ /\ all_lab_tests = <<>>
              /\ regions = 0
              /\ Called("extract_structured_data")

\* the calls made after the text of the full image was extracted
RegionCalls ==
    {n \in 1..Len(calls) :
         \/ calls[n] \in {"detect_table_regions", "extract_table_data", "extract_structured_data"}
         \/ calls[n] = "extract_text" /\ \E m \in 1..(n - 1) : calls[m] = "extract_text"}

\* C16: table regions are detected, and a region is processed, only after the
\* direct extraction on the text of the full image has returned no record;
\* when it returns a record no region is detected or processed; and the
\* structured-line fallback on the full image runs only after the regions
\* together have yielded no record.
C16_FallbackOrder ==
    /\ [](/\ RegionCalls # {} => lab_tests = <<>> /\ Called("extract_text")
          /\ \A n \in RegionCalls :
                 calls[n] # "detect_table_regions"
                     => \E m \in 1..(n - 1) : calls[m] = "detect_table_regions"
          /\ (lab_tests # <<>> /\ pc \in {"respond", "done"}) => RegionCalls = {})
    /\ [][(Called("extract_structured_data")' /\ ~Called("extract_structured_data"))
              => all_lab_tests = <<>> /\ regions = 0 /\ Called("detect_table_regions")]_vars

\* a region was processed without a record, then the structured fallback ran
C16_Witness ==
    /\ Called("extract_table_data")
    /\ Called("extract_structured_data")
    /\ pc = "done"

-----------------------------------------------------------------------------
(* Properties of TextExtractor._group_by_lines (SpecLines) *)

\* the partition of the boxes that a list of lines stands for
Partition(lines) == {BoxesOf(lines[k]) : k \in DOMAIN lines}

\* C13: the grouping is a function of the set of boxes: whatever the order in
\* which the same boxes are supplied (boxes that share their top y and differ
\* in height included), the partition into lines is the same.
C13_OrderIndependent ==
    grp.pc = "done"
        => \A bs \in BoxLists :
               BoxesOf(bs) = BoxesOf(grp.text_boxes)
                   => Partition(_group_by_lines(bs)) = Partition(grp.result)

\* the index in sorted_boxes of the first box of line k, given the lines before it
RunStart(lines, k) == 1 + SumSeq([m \in 1..(k - 1) |-> Len(lines[m])])

\* line k is the run of sorted_boxes that starts at RunStart: its first box is
\* the seed, every box of the run is within half the seed's height of the
\* seed's y, and the box after the run is not
IsRunOfSeed(lines, k, sorted_boxes) ==
    /\ lines[k] # <<>>
    /\ BoxesOf(lines[k])
           = {sorted_boxes[j] :
                  j \in RunStart(lines, k)..(RunStart(lines, k) + Len(lines[k]) - 1)}
    /\ \A j \in DOMAIN lines[k] :
           2 * Abs(lines[k][j].y - sorted_boxes[RunStart(lines, k)].y)
               <= sorted_boxes[RunStart(lines, k)].height
    /\ k < Len(lines)
           => 2 * Abs(sorted_boxes[RunStart(lines, k + 1)].y
                          - sorted_boxes[RunStart(lines, k)].y)
                  > sorted_boxes[RunStart(lines, k)].height
    /\ \A j \in 1..(Len(lines[k]) - 1) : lines[k][j].x <= lines[k][j + 1].x

\* C18: the boxes are taken in order of top y; a line is seeded by the first
\* box left, whose y is the reference and whose height gives the tolerance
\* (half of it); a later box joins iff its y is within the tolerance of the
\* reference, and otherwise closes the line and seeds the next; reference and
\* tolerance stay those of the seed while boxes join; every box ends in
\* exactly one line and a finished line is in order of x.
C18_SeededLines ==
    /\ grp.pc = "loop"
           => /\ grp.current_line[1] = grp.sorted_boxes[RunStart(grp.lines, Len(grp.lines) + 1)]
              /\ grp.line_height = grp.current_line[1].height
              /\ \A k \in DOMAIN grp.lines : IsRunOfSeed(grp.lines, k, grp.sorted_boxes)
    /\ (grp.pc = "done" /\ grp.text_boxes # <<>>)
           => /\ \A j \in 1..(Len(grp.sorted_boxes) - 1) :
                     grp.sorted_boxes[j].y <= grp.sorted_boxes[j + 1].y
              /\ BoxesOf(grp.sorted_boxes) = BoxesOf(grp.text_boxes)
              /\ \A k \in DOMAIN grp.result : IsRunOfSeed(grp.result, k, grp.sorted_boxes)
              /\ SumSeq([k \in DOMAIN grp.result |-> Len(grp.result[k])]) = Len(grp.text_boxes)
              /\ \A b \in BoxesOf(grp.text_boxes) :
                     Cardinality({k \in DOMAIN grp.result : b \in BoxesOf(grp.result[k])}) = 1

\* a line of three boxes has been returned whose last box is within the
\* tolerance of the seed although it is not the seed's neighbour in y
C18_Witness ==
    /\ grp.pc = "done"
    /\ \E k \in DOMAIN grp.result :
           /\ Len(grp.result[k]) = 3
           /\ \E a, b \in BoxesOf(grp.result[k]) : a.y # b.y

-----------------------------------------------------------------------------
(* Properties of TextExtractor._detect_columns (SpecColumns) *)

\* the left x values of the lines, with their multiplicities
LeftXs(lines, x) == Cardinality({j \in DOMAIN lines : lines[j].x = x})

\* Scenario 4: four lines with left x 10, 12, 200 and 205, the rightmost right x
\* being 205
IsScenario4(lines) ==
    /\ Len(lines) = 4
    /\ \A x \in {10, 12, 200, 205} : LeftXs(lines, x) = 1
    /\ max_x_ends(lines) = 205

\* a coordinate c (in units of 1 / hist_bins px) lies within one bin width of x px
About(c, x, lines) ==
    /\ c >= hist_bins * x - bin_width(hist_range(lines))
    /\ c <= hist_bins * x + bin_width(hist_range(lines))

\* C11: on Scenario 4 (left x 10, 12, 200, 205; 20 bins over [10, 205]) the
\* call returns exactly two columns, one starting at about 10 and one starting
\* at about 200.
C11_Scenario4TwoColumns ==
    (dcl.pc = "done" /\ IsScenario4(dcl.lines))
        => /\ Len(dcl.columns) = 2
           /\ About(dcl.columns[1][1], 10, dcl.lines)
           /\ About(dcl.columns[2][1], 200, dcl.lines)

\* the candidate starts: the left edges of the inner bins that hold more lines
\* than either neighbour, and more than one
Candidates(lines, hist) ==
    {bin_edges(hist_range(lines), i) :
         i \in {b \in 1..(hist_bins - 2) :
                    hist[b] > 1 /\ hist[b] > hist[b - 1] /\ hist[b] > hist[b + 1]}}

\* C14: for a non-empty list of lines the columns come left to right with
\* strictly increasing starts and do not overlap (the end of a column is below
\* the start of the next), the last column ends at the largest right x, and a
\* column starts at the smallest left x whenever no candidate start lies
\* within 20 px of it.
C14_ColumnsOrdered ==
    (dcl.pc = "done" /\ dcl.lines # <<>>)
        => /\ dcl.columns # <<>>
           /\ \A i \in 1..(Len(dcl.columns) - 1) :
                  /\ dcl.columns[i][1] < dcl.columns[i + 1][1]
                  /\ dcl.columns[i][2] < dcl.columns[i + 1][1]
           /\ dcl.columns[Len(dcl.columns)][2] = hist_bins * max_x_ends(dcl.lines)
           /\ (\A c \in Candidates(dcl.lines, dcl.hist) :
                   c > hist_bins * (min_x_starts(dcl.lines) + 20))
                  => dcl.columns[1][1] = hist_bins * min_x_starts(dcl.lines)

\* a candidate start further than 20 px from the smallest left x was found, and
\* the columns were returned
C14_Witness ==
    /\ dcl.pc = "done"
    /\ Len(dcl.columns) >= 2
    /\ Candidates(dcl.lines, dcl.hist) # {}
    /\ dcl.columns[1][1] = hist_bins * min_x_starts(dcl.lines)

-----------------------------------------------------------------------------
(* Properties of TextExtractor.extract_table_data (SpecTable) *)

\* the cells of a grid
CellsOf(grid) == {grid[r][c] : r \in DOMAIN grid, c \in 1..Len(tbl.columns)}

\* C20: every row of the returned grid has one cell per detected column, and
\* the text of every line that was assigned to a column is in a cell of the
\* returned grid (no later line of the same row and column replaces it).
C20_AssignedTextKept ==
    tbl.pc = "done"
        => /\ \A r \in DOMAIN tbl.result : Len(tbl.result[r]) = Len(tbl.columns)
           /\ \A j \in tbl.assigned : strip(tbl.lines[j].text) \in CellsOf(tbl.result)

-----------------------------------------------------------------------------
(* Properties of detect_table_regions (SpecRegions) *)

\* a contour of area above 1000 whose w / h is in the closed interval [0.5, 5]
QualifiesClosed(contour) ==
    /\ Gt(contour.area, Fin(1000, 0))
    /\ 2 * contour.w >= contour.h
    /\ contour.w <= 5 * contour.h

\* the contours (by position) whose bounding rectangle must be returned
Qualifying(contours) == {i \in DOMAIN contours : QualifiesClosed(contours[i])}

\* C17: the bounding rectangle of a contour is returned iff the area of the
\* contour is above 1000 and w / h lies in the closed interval [0.5, 5.0]
\* (ratios of exactly 0.5 and exactly 5.0 are kept); with no such contour the
\* result is empty.
C17_ClosedAspectInterval ==
    det.pc = "done"
        => /\ Len(det.result) = Cardinality(Qualifying(det.contours))
           /\ \A i \in DOMAIN det.contours :
                  QualifiesClosed(det.contours[i])
                      <=> \E k \in DOMAIN det.result :
                              det.result[k] = <<det.contours[i].x, det.contours[i].y,
                                                det.contours[i].w, det.contours[i].h>>

-----------------------------------------------------------------------------
(* Properties of concurrent invocations (SpecTwo) *)

\* C15: invocations of process_lab_report that run at the same time on
\* different documents, interleaved at any step, share no state that is
\* written: the parser and the extractor stay as constructed, and each
\* invocation returns the records it returns when it runs alone.
C15_Isolated ==
    /\ two.lab_test_parser = LabTestParser
    /\ two.text_extractor = TextExtractor
    /\ \A i \in Invocations :
           two.frames[i].pc = "done"
               => two.frames[i].result = process_lab_report(two.frames[i].image)

\* two invocations on different images have returned, both after filling
\* their list of region records
C15_Witness ==
    /\ \A i \in Invocations : two.frames[i].pc = "done"
    /\ two.frames[1].image # two.frames[2].image
    /\ two.lists[1] # <<>> /\ two.lists[2] # <<>> /\ two.lists[1] # two.lists[2]

-----------------------------------------------------------------------------
(* Properties of parse_table_data (SpecRows) *)

\* what the first row says about the columns: the cells that match a header pattern
HeaderScan == table_columns(NoColumns, ptd.table_data[1], 0)
HeaderFound == HeaderScan.test_name # -1 \/ HeaderScan.value # -1

\* the name column and the value column: matched in the header row, or columns 0 and 1
\* when the first row matches neither (-1: the header row does not identify the role)
NameColumn == IF HeaderFound THEN HeaderScan.test_name ELSE 0
ValueColumn == IF HeaderFound THEN HeaderScan.value ELSE 1

\* C21: the name and the value of every record parse_table_data emits are read
\* from the name column and the value column (matched in the header row, or
\* columns 0 and 1 when the first row matches neither); when the header row
\* identifies only one of the two roles no other cell, such as the row's last
\* cell, stands in for the missing role, and a header row is never emitted as
\* a record.
C21_NamedColumnsOnly ==
    \A k \in 1..Len(ptd.emitted) :
        /\ NameColumn >= 0 /\ ptd.emitted[k].name_cell = NameColumn
        /\ ValueColumn >= 0 /\ ptd.emitted[k].value_cell = ValueColumn
        /\ ~(HeaderFound /\ ptd.emitted[k].row = 0)

====
